---- MODULE Spec2Model ----
(***************************************************************************)
(* A model of the argument parser of src/index.js (class Command):        *)
(* parseOptions (the tokenizer/matcher), the option listener registered   *)
(* by _optionEx (the value binder) and _parseCommand/_dispatchSubcommand  *)
(* (the resolver).                                                         *)
(*                                                                         *)
(* A token (a JavaScript string) is a sequence of one-character strings,  *)
(* so that arg.length, arg[0], arg.slice(2) and indexOf('=') are computed *)
(* as the code computes them.                                              *)
(***************************************************************************)
EXTENDS Integers, Sequences, FiniteSets, TLC

VARIABLES
  argv,          \* argv.slice(2): the tokens handed to the root's _parseCommand
  cur,           \* `this` of the running _parseCommand / parseOptions
  carried,       \* the `operands` parameter of the running _parseCommand
  input,         \* the `unknown` parameter of _parseCommand = `argv` of parseOptions
  args,          \* parseOptions: the local queue `args`
  operands,      \* parseOptions: the local array `operands`
  unknown,       \* parseOptions: the local array `unknown`
  dest,          \* parseOptions: which of the two arrays `dest` refers to
  pc,            \* position: "parseOptions", "resolve" or "done"
  outcome,       \* how the parse ended ("running" while it has not)
  events,        \* the calls of this.emit(`option:...`), in order
  consumed,      \* parseOptions: the tokens the call took off the queue as option values
  optionValues,  \* the bound value store of every command
  callers,       \* the suspended _parseCommand frames (the call stack below the running one)
  thisArgs,      \* this.args of every command
  actions,       \* the calls fn.apply(self, actionArgs) of the action handlers, in order
  _exitCallback, \* this._exitCallback of every command ("none" when it is not set)
  exitCallbackCalls,  \* the CommanderError objects handed to an _exitCallback, in order
  parseCalls     \* the number of calls of parse() so far

vars == <<argv, cur, carried, input, args, operands, unknown, dest, pc, outcome,
          events, consumed, optionValues, callers, thisArgs, actions,
          _exitCallback, exitCallbackCalls, parseCalls>>

(***************************************************************************)
(* Bounds.                                                                 *)
(***************************************************************************)
\* The longest argument vector handed to parse().
MaxArgs == 3

(***************************************************************************)
(* Tokens.                                                                 *)
(***************************************************************************)
DashDash == <<"-", "-">>

Short(c) == <<"-", c>>
Long(name) == <<"-", "-">> \o name

PepperName == <<"p", "e", "p", "p", "e", "r">>
ExtraName == <<"e", "x", "t", "r", "a">>
CheeseName == <<"c", "h", "e", "e", "s", "e">>
SauceName == <<"s", "a", "u", "c", "e">>

TokOp == <<"o", "p">>
TokSub == <<"s", "u", "b">>

\* JavaScript values: undefined, null, a boolean, a string, a number, an array.
Undefined == [t |-> "undefined"]
Null == [t |-> "null"]
Bool(b) == [t |-> "boolean", b |-> b]
Str(s) == [t |-> "string", s |-> s]
Num(n) == [t |-> "number", n |-> n]
Arr(a) == [t |-> "array", a |-> a]

(***************************************************************************)
(* String primitives used by parseOptions.                                 *)
(***************************************************************************)
\* arg.slice(k)
slice(arg, k) == SubSeq(arg, k + 1, Len(arg))

\* arg.slice(0, k)
sliceTo(arg, k) == SubSeq(arg, 1, IF k > Len(arg) THEN Len(arg) ELSE k)

\* indexOf finding the last ch instead of the first
lastIndexOf(arg, ch) ==
  IF \E i \in 1..Len(arg) : arg[i] = ch
  THEN (CHOOSE i \in 1..Len(arg) : arg[i] = ch /\ \A j \in (i + 1)..Len(arg) : arg[j] # ch) - 1
  ELSE -1

\* arg.indexOf(ch): the 0-based index of the first ch, -1 when there is none
indexOf(arg, ch) ==
  IF \E i \in 1..Len(arg) : arg[i] = ch
  THEN (CHOOSE i \in 1..Len(arg) : arg[i] = ch /\ \A j \in 1..(i - 1) : arg[j] # ch) - 1
  ELSE -1

\* /^--[^=]+=/.test(arg)
longWithValueShape(arg) ==
  /\ Len(arg) >= 4
  /\ arg[1] = "-"
  /\ arg[2] = "-"
  /\ arg[3] # "="
  /\ \E i \in 4..Len(arg) : arg[i] = "="

\* maybeOption(arg) of parseOptions
maybeOption(arg) == Len(arg) > 1 /\ arg[1] = "-"

(***************************************************************************)
(* The command tree, as registration has left it.                         *)
(*   program  .option('-p, --pepper')                                      *)
(*            .option('-x, --extra <val>')                                 *)
(*            .option('-c, --cheese [type]')                               *)
(*   program.command('sub')                                                *)
(*            .option('-p, --pepper')                                      *)
(*            .option('-s, --sauce')                                       *)
(*            .action(fn)                                                  *)
(* and five further programs, each the root of a tree of its own:          *)
(*   app   .requiredOption('-m, --must <v>')                               *)
(*   app.command('build <a>').alias('b').action(fn)                        *)
(*   app.command('run [v...]', { isDefault: true })                        *)
(*            .allowUnknownOption().action(fn)                             *)
(*   tool.command('mk <a> [v...] <c>').action(fn)                          *)
(*   grp = tool.command('grp'); grp.command('in').action(fn);              *)
(*            grp.on('command:*', fn)                                      *)
(*   wild = tool.command('wild'); wild.command('* [a]').action(fn)         *)
(*   svc = tool.command('svc').action(fn); svc.command('x')   (st)         *)
(*   cp    .arguments('<a> <b...>').action(fn)                             *)
(*   ls    .arguments('[a] [b...]').action(fn)                             *)
(*   hub   .requiredOption('-m, --must <v>')                               *)
(*   hub.command('hx').action(fn)                                          *)
(*   one.command('b').action(fn); one.command('a').alias('b').action(fn)   *)
(*   two.command('a').alias('b').action(fn); two.command('b').action(fn)   *)
(* and five programs that exercise the value binder:                       *)
(*   neg   .option('--no-cheese')                                          *)
(*   dflt  .option('-a, --alpha', '', 'x').option('-z, --zero', '', 0)     *)
(*         .option('-e, --empty', '', '').option('-b, --beta', '', false)  *)
(*         .option('-d, --delta').option('-o, --opt [v]', '', 0)           *)
(*   pn    .option('-f, --foo [v]').option('--no-foo')                     *)
(*   np    .option('--no-foo').option('--foo')                             *)
(*   acc   .option('-n, --num <v>', '', collect, [])                       *)
(*         .option('-s, --size [v]', '', /^x/, 'y').action(fn)             *)
(* and a program with an option whose attribute name is the name of a      *)
(* field of the Command object:                                            *)
(*   clash .option('--commands')                                           *)
(*   clash.command('sub').action(fn)                                       *)
(***************************************************************************)
Commands ==
  {"program", "sub", "app", "build", "run", "tool", "mk", "grp", "in", "wild", "star",
   "svc", "st", "cp", "ls", "hub", "hx", "neg", "dflt", "pn", "np", "acc",
   "one", "one_b", "one_a", "two", "two_a", "two_b", "clash", "cs"}

MustName == <<"m", "u", "s", "t">>
FooName == <<"f", "o", "o">>
NoFooName == <<"n", "o", "-">> \o FooName
NoCheeseName == <<"n", "o", "-">> \o CheeseName
CommandsName == <<"c", "o", "m", "m", "a", "n", "d", "s">>

\* new Option(flags): the fields the constructor derives from the flags string
Option(short, name, required, optional) ==
  [hasShort |-> TRUE, short |-> Short(short), long |-> Long(name), name |-> name,
   required |-> required, optional |-> optional, negate |-> FALSE,
   mandatory |-> FALSE, defaultValue |-> Undefined, fn |-> "none"]

\* new Option(flags) for flags that hold a long flag only (`--foo`, `--no-foo`):
\* this.short stays unset, this.negate is flags.indexOf('-no-') !== -1
LongOption(name, required, optional) ==
  [hasShort |-> FALSE, short |-> <<>>, long |-> Long(name), name |-> name,
   required |-> required, optional |-> optional,
   negate |-> (Len(name) >= 3 /\ sliceTo(name, 3) = <<"n", "o", "-">>),
   mandatory |-> FALSE, defaultValue |-> Undefined, fn |-> "none"]

\* option(flags, description, defaultValue): `default as 3rd arg`
withDefault(option, defaultValue) == [option EXCEPT !.defaultValue = defaultValue]

\* option(flags, description, fn, defaultValue): fn is a function, or a RegExp
\* that _optionEx wraps into one
withCoercion(option, f, defaultValue) ==
  [option EXCEPT !.fn = f, !.defaultValue = defaultValue]

\* requiredOption(flags): _optionEx({ mandatory: true }, flags, ...)
requiredOptionOf(short, name, required, optional) ==
  [Option(short, name, required, optional) EXCEPT !.mandatory = TRUE]

\* this.options of each command
options(cmd) ==
  CASE cmd = "program" -> << Option("p", PepperName, FALSE, FALSE),
                             Option("x", ExtraName, TRUE, FALSE),
                             Option("c", CheeseName, FALSE, TRUE) >>
    [] cmd = "sub" -> << Option("p", PepperName, FALSE, FALSE),
                         Option("s", SauceName, FALSE, FALSE) >>
    [] cmd = "app" -> << requiredOptionOf("m", MustName, TRUE, FALSE) >>
    [] cmd = "hub" -> << requiredOptionOf("m", MustName, TRUE, FALSE) >>
    [] cmd = "neg" -> << LongOption(NoCheeseName, FALSE, FALSE) >>
    [] cmd = "dflt" -> << withDefault(Option("a", <<"a", "l", "p", "h", "a">>, FALSE, FALSE),
                                      Str(<<"x">>)),
                          withDefault(Option("z", <<"z", "e", "r", "o">>, FALSE, FALSE), Num(0)),
                          withDefault(Option("e", <<"e", "m", "p", "t", "y">>, FALSE, FALSE),
                                      Str(<<>>)),
                          withDefault(Option("b", <<"b", "e", "t", "a">>, FALSE, FALSE),
                                      Bool(FALSE)),
                          Option("d", <<"d", "e", "l", "t", "a">>, FALSE, FALSE),
                          withDefault(Option("o", <<"o", "p", "t">>, FALSE, TRUE), Num(0)) >>
    [] cmd = "pn" -> << Option("f", FooName, FALSE, TRUE),
                        LongOption(NoFooName, FALSE, FALSE) >>
    [] cmd = "np" -> << LongOption(NoFooName, FALSE, FALSE),
                        LongOption(FooName, FALSE, FALSE) >>
    [] cmd = "acc" -> << withCoercion(Option("n", <<"n", "u", "m">>, TRUE, FALSE),
                                      "collect", Arr(<<>>)),
                         withCoercion(Option("s", <<"s", "i", "z", "e">>, FALSE, TRUE),
                                      "regex", Str(<<"y">>)) >>
    [] cmd = "clash" -> << LongOption(CommandsName, FALSE, FALSE) >>
    [] OTHER -> <<>>

\* Option.is(arg)
is(option, arg) == (option.hasShort /\ option.short = arg) \/ option.long = arg

\* Whether this._findOption(arg) finds an option
hasOption(cmd, arg) == \E i \in 1..Len(options(cmd)) : is(options(cmd)[i], arg)

\* this._findOption(arg): Array.find gives the first match
_findOption(cmd, arg) ==
  LET i == CHOOSE k \in 1..Len(options(cmd)) :
             /\ is(options(cmd)[k], arg)
             /\ \A j \in 1..(k - 1) : ~is(options(cmd)[j], arg)
  IN options(cmd)[i]

\* this.commands of each command, as command() registered them
commands(cmd) ==
  CASE cmd = "program" -> <<"sub">>
    [] cmd = "app" -> <<"build", "run">>
    [] cmd = "tool" -> <<"mk", "grp", "wild", "svc">>
    [] cmd = "grp" -> <<"in">>
    [] cmd = "wild" -> <<"star">>
    [] cmd = "svc" -> <<"st">>
    [] cmd = "hub" -> <<"hx">>
    [] cmd = "one" -> <<"one_b", "one_a">>
    [] cmd = "two" -> <<"two_a", "two_b">>
    [] cmd = "clash" -> <<"cs">>
    [] OTHER -> <<>>

(***************************************************************************)
(* The bound value store and the option listener (the value binder).       *)
(* _storeOptionsAsProperties is true (the constructor's default), so the   *)
(* store of a command is the Command object: _setOptionValue(key, value)   *)
(* is this[key] = value and _getOptionValue(key) is this[key].             *)
(***************************************************************************)
UpperCase ==
  [a |-> "A", b |-> "B", c |-> "C", d |-> "D", e |-> "E", f |-> "F", g |-> "G",
   h |-> "H", i |-> "I", j |-> "J", k |-> "K", l |-> "L", m |-> "M", n |-> "N",
   o |-> "O", p |-> "P", q |-> "Q", r |-> "R", s |-> "S", t |-> "T", u |-> "U",
   v |-> "V", w |-> "W", x |-> "X", y |-> "Y", z |-> "Z"]

toUpperCase(c) == IF c \in DOMAIN UpperCase THEN UpperCase[c] ELSE c

\* camelcase(flag): the words between '-' joined, each but the first capitalised
RECURSIVE camelcase(_)
camelcase(flag) ==
  IF flag = <<>> THEN <<>>
  ELSE IF Head(flag) = "-" /\ Len(flag) > 1
       THEN <<toUpperCase(flag[2])>> \o camelcase(slice(flag, 2))
       ELSE <<Head(flag)>> \o camelcase(Tail(flag))

\* Option.attributeName(): camelcase(this.name().replace(/^no-/, ''))
attributeName(option) ==
  LET nm == option.name
  IN camelcase(IF Len(nm) >= 3 /\ sliceTo(nm, 3) = <<"n", "o", "-">> THEN slice(nm, 3) ELSE nm)

\* The keys the options of a command are stored under
Keys(cmd) == { attributeName(options(cmd)[i]) : i \in 1..Len(options(cmd)) }

\* this[key] of a Command the constructor has made and command() has filled: the
\* array this.commands under the key `commands`, undefined under the keys that
\* name no field
property(cmd, key) ==
  IF key = CommandsName
  THEN Arr([i \in 1..Len(commands(cmd)) |-> [t |-> "object", of |-> commands(cmd)[i]]])
  ELSE Undefined

\* _optionEx without the default `true` of a negation flag
RECURSIVE _optionExPlainNegation(_, _)
_optionExPlainNegation(cmd, k) ==
  IF k = 0 THEN [key \in Keys(cmd) |-> Undefined]
  ELSE LET prev == _optionExPlainNegation(cmd, k - 1)
           option == options(cmd)[k]
           name == attributeName(option)
           defaultValue == option.defaultValue
       IN IF /\ \/ option.negate
                \/ option.optional
                \/ option.required
                \/ option.defaultValue.t = "boolean"
             /\ defaultValue # Undefined
          THEN [prev EXCEPT ![name] = defaultValue]
          ELSE prev

\* _optionEx, the pre-assignment: the store of cmd once its first k options are registered
RECURSIVE _optionEx(_, _)
_optionEx(cmd, k) ==
  IF k = 0 THEN [key \in Keys(cmd) |-> property(cmd, key)]
  ELSE LET prev == _optionEx(cmd, k - 1)
           option == options(cmd)[k]
           name == attributeName(option)
           positiveLongFlag == Long(slice(option.name, 3))
           positive == \E j \in 1..(k - 1) : is(options(cmd)[j], positiveLongFlag)
           defaultValue == IF option.negate
                           THEN (IF positive THEN prev[name] ELSE Bool(TRUE))
                           ELSE option.defaultValue
       IN IF /\ \/ option.negate
                \/ option.optional
                \/ option.required
                \/ option.defaultValue.t = "boolean"
             /\ defaultValue # Undefined
          THEN [prev EXCEPT ![name] = defaultValue]
          ELSE prev

\* The `defaultValue` the listener of option k closes over
closureDefault(cmd, k) ==
  LET option == options(cmd)[k]
      positiveLongFlag == Long(slice(option.name, 3))
      positive == \E j \in 1..(k - 1) : is(options(cmd)[j], positiveLongFlag)
  IN IF option.negate
     THEN (IF positive THEN _optionEx(cmd, k - 1)[attributeName(option)] ELSE Bool(TRUE))
     ELSE option.defaultValue

\* JavaScript truthiness, for `defaultValue || true`
truthy(v) ==
  CASE v.t = "undefined" -> FALSE
    [] v.t = "null" -> FALSE
    [] v.t = "boolean" -> v.b
    [] v.t = "string" -> v.s # <<>>
    [] v.t = "number" -> v.n # 0
    [] v.t = "array" -> TRUE

\* fn(val, previous), for the functions the options of the trees are registered with:
\*   collect: (val, previous) => previous.concat([val])
\*   regex:   the function _optionEx makes of the regular expression /^x/,
\*            (val, def) => { var m = regex.exec(val); return m ? m[0] : def; }
fn(f, val, previous) ==
  CASE f = "collect" -> Arr(Append(previous.a, val))
    [] f = "regex" -> IF val.t = "string" /\ val.s # <<>> /\ val.s[1] = "x"
                      THEN Str(<<"x">>)
                      ELSE previous

\* assign binding true for every occurrence without a value, default or not
assignTrueWithoutValue(cmd, k, val, values) ==
  LET option == options(cmd)[k]
      name == attributeName(option)
      current == values[name]
  IN IF current.t = "boolean" \/ current.t = "undefined"
     THEN IF val = Null \/ val = Undefined
          THEN [values EXCEPT ![name] = IF option.negate THEN Bool(FALSE) ELSE Bool(TRUE)]
          ELSE [values EXCEPT ![name] = val]
     ELSE IF val # Null
          THEN [values EXCEPT ![name] = IF option.negate THEN Bool(FALSE) ELSE val]
          ELSE values

\* assign reassigning a stored non-boolean value only from an occurrence with a value
assignKeepsValueOnFlag(cmd, k, val, values) ==
  LET option == options(cmd)[k]
      name == attributeName(option)
      defaultValue == closureDefault(cmd, k)
      current == values[name]
  IN IF current.t = "boolean" \/ current.t = "undefined"
     THEN IF val = Null \/ val = Undefined
          THEN [values EXCEPT ![name] =
                  IF option.negate THEN Bool(FALSE)
                  ELSE IF truthy(defaultValue) THEN defaultValue ELSE Bool(TRUE)]
          ELSE [values EXCEPT ![name] = val]
     ELSE IF val # Null /\ val # Undefined
          THEN [values EXCEPT ![name] = IF option.negate THEN Bool(FALSE) ELSE val]
          ELSE values

\* The listener this.on('option:' + oname, ...) of option k of cmd, applied to the
\* store `values` of cmd, from the coerced value on
assign(cmd, k, val, values) ==
  LET option == options(cmd)[k]
      name == attributeName(option)
      defaultValue == closureDefault(cmd, k)
      current == values[name]
  IN IF current.t = "boolean" \/ current.t = "undefined"
     THEN IF val = Null \/ val = Undefined
          THEN [values EXCEPT ![name] =
                  IF option.negate THEN Bool(FALSE)
                  ELSE IF truthy(defaultValue) THEN defaultValue ELSE Bool(TRUE)]
          ELSE [values EXCEPT ![name] = val]
     ELSE IF val # Null
          THEN [values EXCEPT ![name] = IF option.negate THEN Bool(FALSE) ELSE val]
          ELSE values

\* listener handing the coercion function the declared default as the previous
\* value at every occurrence
listenerCoercesFromDefault(cmd, k, val, values) ==
  LET option == options(cmd)[k]
      defaultValue == closureDefault(cmd, k)
  IN IF val # Null /\ option.fn # "none"
     THEN assign(cmd, k, fn(option.fn, val, defaultValue), values)
     ELSE assign(cmd, k, val, values)

\* The listener this.on('option:' + oname, ...) of option k of cmd, applied to the
\* store `values` of cmd: the coercion, then the assignment
listener(cmd, k, val, values) ==
  LET option == options(cmd)[k]
      name == attributeName(option)
      defaultValue == closureDefault(cmd, k)
      current == values[name]
  IN IF val # Null /\ option.fn # "none"
     THEN assign(cmd, k,
                 fn(option.fn, val, IF current = Undefined THEN defaultValue ELSE current),
                 values)
     ELSE assign(cmd, k, val, values)

\* this.emit(`option:${name}`, val): every listener registered under that event
\* name runs, in registration order (k is the next listener to consider)
RECURSIVE emitFrom(_, _, _, _, _)
emitFrom(cmd, name, val, values, k) ==
  IF k > Len(options(cmd)) THEN values
  ELSE emitFrom(cmd, name, val,
                IF options(cmd)[k].name = name THEN listener(cmd, k, val, values) ELSE values,
                k + 1)

emit(cmd, name, val, values) == emitFrom(cmd, name, val, values, 1)

(***************************************************************************)
(* parseOptions. The state of one call is the record                       *)
(*   [args, operands, unknown, dest, events, consumed, values, pc, outcome] *)
(* where values is the store of `this`; one iteration of the while loop    *)
(* maps it to the next.                                                    *)
(***************************************************************************)
\* The results of a step of the parse
ExitWith(exitCode, code, detail) ==
  [kind |-> "exit", exitCode |-> exitCode, code |-> code, detail |-> detail]

Return == [kind |-> "return"]

Running == [kind |-> "running"]

\* this.emit(`option:${option.name()}`, val), with its effect on the store of `this`
emitOption(cmd, st, option, val) ==
  [st EXCEPT !.events = Append(@, [cmd |-> cmd, name |-> option.name, val |-> val]),
             !.values = emit(cmd, option.name, val, @)]

\* _exit returning to its caller: the error is recorded and the loop goes on
_exitGoesOn(st, exitCode, code, detail) ==
  [st EXCEPT !.outcome = ExitWith(exitCode, code, detail)]

\* this._exit(exitCode, code, message): the parse ends there
_exit(st, exitCode, code, detail) ==
  [st EXCEPT !.pc = "done", !.outcome = ExitWith(exitCode, code, detail)]

\* new CommanderError(exitCode, code, message)
CommanderError(exitCode, code, message) ==
  [exitCode |-> exitCode, code |-> code, message |-> message]

\* _exit: `if (this._exitCallback) this._exitCallback(new CommanderError(...))`,
\* the calls of the callback once a step has ended with `result`
callbackCalls(callback, calls, result) ==
  IF result.kind = "exit" /\ callback # "none"
  THEN Append(calls, CommanderError(result.exitCode, result.code, result.detail))
  ELSE calls

\* exited with the callback standing in for process.exit: once it has returned,
\* the step is over and the process goes on
exitedInsteadOfExit(callback, result) ==
  IF result.kind = "exit" /\ callback = "throws"
  THEN [kind |-> "throw",
        error |-> CommanderError(result.exitCode, result.code, result.detail)]
  ELSE IF result.kind = "exit" /\ callback = "returns"
  THEN Return
  ELSE result

\* _exit: how the step ends. A callback that throws (exitOverride() without an
\* argument installs one) takes control out of parse(); with no callback, or
\* one that returns, process.exit(exitCode) is reached
exited(callback, result) ==
  IF result.kind = "exit" /\ callback = "throws"
  THEN [kind |-> "throw",
        error |-> CommanderError(result.exitCode, result.code, result.detail)]
  ELSE result

\* literal keeping the '--' in either destination
literalKept(st) ==
  LET arg == Head(st.args)
      rest == Tail(st.args)
  IN IF st.dest = "unknown"
     THEN [st EXCEPT !.args = rest, !.unknown = (@ \o <<arg>>) \o rest, !.pc = "resolve"]
     ELSE [st EXCEPT !.args = rest, !.operands = (@ \o <<arg>>) \o rest, !.pc = "resolve"]

\* if (arg === '--') { if (dest === unknown) dest.push(arg); dest.push(...args); break; }
\* (arg is shifted off; the break leads to the return)
literal(st) ==
  LET arg == Head(st.args)
      rest == Tail(st.args)
  IN IF st.dest = "unknown"
     THEN [st EXCEPT !.args = rest, !.unknown = (@ \o <<arg>>) \o rest, !.pc = "resolve"]
     ELSE [st EXCEPT !.args = rest, !.operands = @ \o rest, !.pc = "resolve"]

\* The token is option-shaped and this._findOption(arg) finds an option
Recognised(cmd, arg) == maybeOption(arg) /\ hasOption(cmd, arg)

\* requiredOption refusing an option-shaped token as the value
requiredOptionRefusesFlag(cmd, st, option) ==
  LET rest == Tail(st.args)
  IN IF rest = <<>> \/ maybeOption(rest[1])
     THEN _exit([st EXCEPT !.args = rest], 1, "commander.optionMissingArgument", option.long)
     ELSE emitOption(cmd,
                     [st EXCEPT !.args = Tail(rest), !.consumed = Append(@, Head(rest))],
                     option, Str(Head(rest)))

\* requiredOption reading args[0] without shifting it
requiredOptionPeeks(cmd, st, option) ==
  LET rest == Tail(st.args)
  IN IF rest = <<>>
     THEN _exit([st EXCEPT !.args = rest], 1, "commander.optionMissingArgument", option.long)
     ELSE emitOption(cmd,
                     [st EXCEPT !.args = rest, !.consumed = Append(@, Head(rest))],
                     option, Str(Head(rest)))

\* if (option.required) { const value = args.shift(); ... }
requiredOption(cmd, st, option) ==
  LET rest == Tail(st.args)
  IN IF rest = <<>>
     THEN \* value === undefined: this.optionMissingArgument(option)
          _exit([st EXCEPT !.args = rest], 1, "commander.optionMissingArgument", option.long)
     ELSE emitOption(cmd,
                     [st EXCEPT !.args = Tail(rest), !.consumed = Append(@, Head(rest))],
                     option, Str(Head(rest)))

\* optionalOption taking whatever token follows as the value
optionalOptionGreedy(cmd, st, option) ==
  LET rest == Tail(st.args)
  IN IF Len(rest) > 0
     THEN emitOption(cmd,
                     [st EXCEPT !.args = Tail(rest), !.consumed = Append(@, Head(rest))],
                     option, Str(Head(rest)))
     ELSE emitOption(cmd, [st EXCEPT !.args = rest], option, Null)

\* else if (option.optional) { let value = null; if (args.length > 0 && !maybeOption(args[0])) ... }
optionalOption(cmd, st, option) ==
  LET rest == Tail(st.args)
  IN IF Len(rest) > 0 /\ ~maybeOption(rest[1])
     THEN emitOption(cmd,
                     [st EXCEPT !.args = Tail(rest), !.consumed = Append(@, Head(rest))],
                     option, Str(Head(rest)))
     ELSE emitOption(cmd, [st EXCEPT !.args = rest], option, Null)

\* recognised option: required, optional or boolean flag; continue
knownOption(cmd, st) ==
  LET option == _findOption(cmd, Head(st.args))
  IN IF option.required THEN requiredOption(cmd, st, option)
     ELSE IF option.optional THEN optionalOption(cmd, st, option)
     ELSE emitOption(cmd, [st EXCEPT !.args = Tail(st.args)], option, Undefined)

\* arg.length > 2 && arg[0] === '-' && arg[1] !== '-', and this._findOption(`-${arg[1]}`)
IsCombo(cmd, arg) ==
  /\ Len(arg) > 2
  /\ arg[1] = "-"
  /\ arg[2] # "-"
  /\ hasOption(cmd, <<"-", arg[2]>>)

\* combo dropping the remainder of a boolean cluster
comboDropsRemainder(cmd, st) ==
  LET arg == Head(st.args)
      rest == Tail(st.args)
      option == _findOption(cmd, <<"-", arg[2]>>)
  IN IF option.required \/ option.optional
     THEN emitOption(cmd, [st EXCEPT !.args = rest], option, Str(slice(arg, 2)))
     ELSE emitOption(cmd, [st EXCEPT !.args = rest], option, Undefined)

\* combo taking the value of a value option from the following token
comboValueFollows(cmd, st) ==
  LET arg == Head(st.args)
      rest == Tail(st.args)
      option == _findOption(cmd, <<"-", arg[2]>>)
  IN IF option.required \/ option.optional
     THEN IF rest = <<>>
          THEN emitOption(cmd, [st EXCEPT !.args = rest], option, Str(slice(arg, 2)))
          ELSE emitOption(cmd,
                          [st EXCEPT !.args = Tail(rest), !.consumed = Append(@, Head(rest))],
                          option, Str(Head(rest)))
     ELSE emitOption(cmd, [st EXCEPT !.args = <<(<<"-">> \o slice(arg, 2))>> \o rest],
                     option, Undefined)

\* combo putting the whole cluster back on the queue
comboReinjectsWhole(cmd, st) ==
  LET arg == Head(st.args)
      rest == Tail(st.args)
      option == _findOption(cmd, <<"-", arg[2]>>)
  IN IF option.required \/ option.optional
     THEN emitOption(cmd, [st EXCEPT !.args = rest], option, Str(slice(arg, 2)))
     ELSE emitOption(cmd, [st EXCEPT !.args = <<arg>> \o rest], option, Undefined)

\* Look for combo options following single dash, eat first one if known.
combo(cmd, st) ==
  LET arg == Head(st.args)
      rest == Tail(st.args)
      option == _findOption(cmd, <<"-", arg[2]>>)
  IN IF option.required \/ option.optional
     THEN emitOption(cmd, [st EXCEPT !.args = rest], option, Str(slice(arg, 2)))
     ELSE emitOption(cmd, [st EXCEPT !.args = <<(<<"-">> \o slice(arg, 2))>> \o rest],
                     option, Undefined)

\* /^--[^=]+=/.test(arg), and the part before '=' is an option that takes a value
IsLongWithValue(cmd, arg) ==
  /\ longWithValueShape(arg)
  /\ LET index == indexOf(arg, "=")
     IN /\ hasOption(cmd, sliceTo(arg, index))
        /\ LET option == _findOption(cmd, sliceTo(arg, index))
           IN option.required \/ option.optional

\* Look for known long flag with value, like --foo=bar
longWithValue(cmd, st) ==
  LET arg == Head(st.args)
      index == indexOf(arg, "=")
      option == _findOption(cmd, sliceTo(arg, index))
  IN emitOption(cmd, [st EXCEPT !.args = Tail(st.args)], option, Str(slice(arg, index + 1)))

\* addArg with the destination following the shape of each token
addArgByShape(st) ==
  LET arg == Head(st.args)
  IN IF Len(arg) > 1 /\ arg[1] = "-"
     THEN [st EXCEPT !.args = Tail(st.args), !.dest = "unknown", !.unknown = Append(@, arg)]
     ELSE [st EXCEPT !.args = Tail(st.args), !.operands = Append(@, arg)]

\* if (arg.length > 1 && arg[0] === '-') dest = unknown; dest.push(arg);
addArg(st) ==
  LET arg == Head(st.args)
      newDest == IF Len(arg) > 1 /\ arg[1] = "-" THEN "unknown" ELSE st.dest
  IN IF newDest = "unknown"
     THEN [st EXCEPT !.args = Tail(st.args), !.dest = newDest, !.unknown = Append(@, arg)]
     ELSE [st EXCEPT !.args = Tail(st.args), !.dest = newDest, !.operands = Append(@, arg)]

\* iteration with option matching switched off once the destination is unknown
iterationStopsAtUnknown(cmd, st) ==
  IF st.args = <<>> THEN [st EXCEPT !.pc = "resolve"]
  ELSE IF Head(st.args) = DashDash THEN literal(st)
  ELSE IF st.dest = "unknown" THEN addArg(st)
  ELSE IF Recognised(cmd, Head(st.args)) THEN knownOption(cmd, st)
  ELSE IF IsCombo(cmd, Head(st.args)) THEN combo(cmd, st)
  ELSE IF IsLongWithValue(cmd, Head(st.args)) THEN longWithValue(cmd, st)
  ELSE addArg(st)

\* iteration with option matching switched off once an operand has been found
iterationOptionsFirst(cmd, st) ==
  IF st.args = <<>> THEN [st EXCEPT !.pc = "resolve"]
  ELSE IF Head(st.args) = DashDash THEN literal(st)
  ELSE IF st.operands # <<>> THEN addArg(st)
  ELSE IF Recognised(cmd, Head(st.args)) THEN knownOption(cmd, st)
  ELSE IF IsCombo(cmd, Head(st.args)) THEN combo(cmd, st)
  ELSE IF IsLongWithValue(cmd, Head(st.args)) THEN longWithValue(cmd, st)
  ELSE addArg(st)

\* One pass through `while (args.length) {...}`; with args empty, the return
iteration(cmd, st) ==
  IF st.args = <<>> THEN [st EXCEPT !.pc = "resolve"]
  ELSE IF Head(st.args) = DashDash THEN literal(st)
  ELSE IF Recognised(cmd, Head(st.args)) THEN knownOption(cmd, st)
  ELSE IF IsCombo(cmd, Head(st.args)) THEN combo(cmd, st)
  ELSE IF IsLongWithValue(cmd, Head(st.args)) THEN longWithValue(cmd, st)
  ELSE addArg(st)

\* parseOptions from the state st to its return or to the exit
RECURSIVE parseOptions(_, _)
parseOptions(cmd, st) ==
  IF st.pc # "parseOptions" THEN st ELSE parseOptions(cmd, iteration(cmd, st))

\* The state of the running parseOptions call
State ==
  [args |-> args, operands |-> operands, unknown |-> unknown, dest |-> dest,
   events |-> events, consumed |-> consumed, values |-> optionValues[cur],
   pc |-> pc, outcome |-> outcome]

\* The running parseOptions call makes one pass through its loop
ParseOptionsStep ==
  /\ pc = "parseOptions"
  /\ \E st \in {iteration(cur, State)} :
        /\ args' = st.args
        /\ operands' = st.operands
        /\ unknown' = st.unknown
        /\ dest' = st.dest
        /\ events' = st.events
        /\ consumed' = st.consumed
        /\ optionValues' = [optionValues EXCEPT ![cur] = st.values]
        /\ pc' = st.pc
        /\ outcome' = IF st.pc = "done" THEN exited(_exitCallback[cur], st.outcome)
                                        ELSE st.outcome
        /\ exitCallbackCalls' =
             IF st.pc = "done"
             THEN callbackCalls(_exitCallback[cur], exitCallbackCalls, st.outcome)
             ELSE exitCallbackCalls
  /\ UNCHANGED <<argv, cur, carried, input, callers, thisArgs, actions, _exitCallback,
                 parseCalls>>

(***************************************************************************)
(* The resolver: _parseCommand after parseOptions has returned.            *)
(***************************************************************************)
\* this.parent and the fields of each command
\* The programs: the commands that have no parent
Roots ==
  {"program", "app", "tool", "cp", "ls", "hub", "neg", "dflt", "pn", "np", "acc", "one", "two",
   "clash"}

hasParent(cmd) == cmd \notin Roots

parent(cmd) == CHOOSE p \in Commands : \E i \in 1..Len(commands(p)) : commands(p)[i] = cmd

TokBuild == <<"b", "u", "i", "l", "d">>
TokB == <<"b">>
TokA == <<"a">>
TokRun == <<"r", "u", "n">>
TokMk == <<"m", "k">>
TokGrp == <<"g", "r", "p">>
TokWild == <<"w", "i", "l", "d">>
TokSvc == <<"s", "v", "c">>
TokStar == <<"*">>
TokHx == <<"h", "x">>

_name(cmd) ==
  CASE cmd = "sub" -> TokSub
    [] cmd = "program" -> <<"p", "r", "o", "g", "r", "a", "m">>
    [] cmd = "app" -> <<"a", "p", "p">>
    [] cmd = "build" -> TokBuild
    [] cmd = "run" -> TokRun
    [] cmd = "tool" -> <<"t", "o", "o", "l">>
    [] cmd = "mk" -> TokMk
    [] cmd = "grp" -> TokGrp
    [] cmd = "in" -> <<"i", "n">>
    [] cmd = "wild" -> TokWild
    [] cmd = "star" -> TokStar
    [] cmd = "svc" -> TokSvc
    [] cmd = "st" -> <<"x">>
    [] cmd = "cp" -> <<"c", "p">>
    [] cmd = "ls" -> <<"l", "s">>
    [] cmd = "hub" -> <<"h", "u", "b">>
    [] cmd = "hx" -> TokHx
    [] cmd = "neg" -> <<"n", "e", "g">>
    [] cmd = "dflt" -> <<"d", "f", "l", "t">>
    [] cmd = "pn" -> <<"p", "n">>
    [] cmd = "np" -> <<"n", "p">>
    [] cmd = "acc" -> <<"a", "c", "c">>
    [] cmd = "one" -> <<"o", "n", "e">>
    [] cmd = "one_b" -> TokB
    [] cmd = "one_a" -> TokA
    [] cmd = "two" -> <<"t", "w", "o">>
    [] cmd = "two_a" -> TokA
    [] cmd = "two_b" -> TokB
    [] cmd = "clash" -> <<"c", "l", "a", "s", "h">>
    [] cmd = "cs" -> TokSub

hasAlias(cmd) == cmd \in {"build", "one_a", "two_a"}

_alias(cmd) == IF cmd \in {"build", "one_a", "two_a"} THEN TokB ELSE <<>>

_actionHandler(cmd) ==
  cmd \in {"sub", "build", "run", "mk", "in", "star", "svc", "cp", "ls", "hx", "acc",
           "one_b", "one_a", "two_a", "two_b", "cs"}

_executableHandler(cmd) == FALSE

\* _parseExpectedArgs: the descriptor of `<name>`, `[name]`, `<name...>`, `[name...]`
Arg(name, required, variadic) == [name |-> name, required |-> required, variadic |-> variadic]

\* this._args: the positional descriptors {name, required, variadic}
_args(cmd) ==
  CASE cmd = "build" -> << Arg(<<"a">>, TRUE, FALSE) >>
    [] cmd = "run" -> << Arg(<<"v">>, FALSE, TRUE) >>
    [] cmd = "mk" -> << Arg(<<"a">>, TRUE, FALSE), Arg(<<"v">>, FALSE, TRUE), Arg(<<"c">>, TRUE, FALSE) >>
    [] cmd = "star" -> << Arg(<<"a">>, FALSE, FALSE) >>
    [] cmd = "cp" -> << Arg(<<"a">>, TRUE, FALSE), Arg(<<"b">>, TRUE, TRUE) >>
    [] cmd = "ls" -> << Arg(<<"a">>, FALSE, FALSE), Arg(<<"b">>, FALSE, TRUE) >>
    [] OTHER -> <<>>

hasDefaultCommand(cmd) == cmd = "app"

_defaultCommandName(cmd) == IF cmd = "app" THEN TokRun ELSE <<>>

_allowUnknownOption(cmd) == cmd = "run"

\* this.listenerCount('command:*')
hasCommandStarListener(cmd) == cmd = "grp"

_helpCommandName(cmd) == <<"h", "e", "l", "p">>

_helpLongFlag(cmd) == Long(<<"h", "e", "l", "p">>)

_helpShortFlag(cmd) == Short("h")

\* The exception of `this.commands.find` or `this.commands.length` when
\* this.commands is not an array any more
TypeError == [kind |-> "throw", error |-> [name |-> "TypeError"]]

\* this.commands as _findCommand and _lazyHasImplicitHelpCommand read it: the
\* property `commands` of the object, which is the store entry of an option of
\* that attribute name
thisCommands(cmd, store) ==
  IF CommandsName \in Keys(cmd) THEN store[cmd][CommandsName] ELSE property(cmd, CommandsName)

\* cmd._name === name || cmd._alias === name
commandMatches(c, name) == _name(c) = name \/ (hasAlias(c) /\ _alias(c) = name)

\* Whether this._findCommand(name) finds a child (`!name` holds for '' and undefined)
hasCommand(cmd, name) ==
  /\ name # <<>>
  /\ \E i \in 1..Len(commands(cmd)) : commandMatches(commands(cmd)[i], name)

\* _findCommand looking for a child of that name before it looks at the aliases
_findCommandNameFirst(cmd, name) ==
  IF \E k \in 1..Len(commands(cmd)) : _name(commands(cmd)[k]) = name
  THEN commands(cmd)[CHOOSE k \in 1..Len(commands(cmd)) :
                       /\ _name(commands(cmd)[k]) = name
                       /\ \A j \in 1..(k - 1) : _name(commands(cmd)[j]) # name]
  ELSE commands(cmd)[CHOOSE k \in 1..Len(commands(cmd)) :
                       /\ commandMatches(commands(cmd)[k], name)
                       /\ \A j \in 1..(k - 1) : ~commandMatches(commands(cmd)[j], name)]

\* this._findCommand(name): Array.find gives the first match
_findCommand(cmd, name) ==
  LET i == CHOOSE k \in 1..Len(commands(cmd)) :
             /\ commandMatches(commands(cmd)[k], name)
             /\ \A j \in 1..(k - 1) : ~commandMatches(commands(cmd)[j], name)
  IN commands(cmd)[i]

\* this._lazyHasImplicitHelpCommand(), when addHelpCommand() was never called
_lazyHasImplicitHelpCommand(cmd) ==
  /\ Len(commands(cmd)) > 0
  /\ ~_actionHandler(cmd)
  /\ ~hasCommand(cmd, <<"h", "e", "l", "p">>)

\* outputHelpIfRequested(cmd, args): whether a help flag is among args
helpRequested(cmd, tokens) ==
  \E i \in 1..Len(tokens) : tokens[i] = _helpLongFlag(cmd) \/ tokens[i] = _helpShortFlag(cmd)

\* ancestry stopping at the command itself
ancestrySelfOnly(cmd) == <<cmd>>

\* The commands _checkForMissingMandatoryOptions walks: cmd, then its ancestors
RECURSIVE ancestry(_)
ancestry(cmd) == IF hasParent(cmd) THEN <<cmd>> \o ancestry(parent(cmd)) ELSE <<cmd>>

\* Whether option i of command c is mandatory and has no bound value
missesMandatory(c, i, store) ==
  /\ options(c)[i].mandatory
  /\ store[c][attributeName(options(c)[i])] = Undefined

\* Whether _checkForMissingMandatoryOptions calls missingMandatoryOptionValue
_checkForMissingMandatoryOptions(cmd, store) ==
  \E a \in 1..Len(ancestry(cmd)) :
    \E i \in 1..Len(options(ancestry(cmd)[a])) : missesMandatory(ancestry(cmd)[a], i, store)

\* reporter as `this` for every error kind
reporterThis(cmd, result, store) == cmd

\* The command whose _exit a step of cmd that ends with `result` calls:
\* _checkForMissingMandatoryOptions calls cmd.missingMandatoryOptionValue on the
\* command of its walk that lacks the value, every other report is made on `this`
reporter(cmd, result, store) ==
  IF result.kind = "exit" /\ result.code = "commander.missingMandatoryOptionValue"
  THEN ancestry(cmd)[CHOOSE a \in 1..Len(ancestry(cmd)) :
                       /\ \E i \in 1..Len(options(ancestry(cmd)[a])) :
                            missesMandatory(ancestry(cmd)[a], i, store)
                       /\ \A b \in 1..(a - 1) :
                            \A i \in 1..Len(options(ancestry(cmd)[b])) :
                              ~missesMandatory(ancestry(cmd)[b], i, store)]
  ELSE cmd

\* The further results of a step of the resolver
DispatchTo(sub, ops, unk) ==
  [kind |-> "dispatch", to |-> sub, operands |-> ops, unknown |-> unk]

CallAction(cmd, bound) == [kind |-> "action", cmd |-> cmd, args |-> bound]

\* _dispatchSubcommand handing the child every token to tokenize
_dispatchSubcommandAllUnknown(cmd, commandName, ops, unk, store) ==
  IF ~hasCommand(cmd, commandName)
  THEN ExitWith(1, "commander.help", <<>>)
  ELSE DispatchTo(_findCommand(cmd, commandName), <<>>, ops \o unk)

\* _dispatchSubcommand(commandName, operands, unknown)
_dispatchSubcommand(cmd, commandName, ops, unk, store) ==
  IF ~hasCommand(cmd, commandName)
  THEN ExitWith(1, "commander.help", <<>>)
  ELSE LET subCommand == _findCommand(cmd, commandName)
       IN IF _executableHandler(subCommand)
          THEN IF _checkForMissingMandatoryOptions(cmd, store)
               THEN ExitWith(1, "commander.missingMandatoryOptionValue", <<>>)
               ELSE [kind |-> "spawn", to |-> subCommand, args |-> ops \o unk]
          ELSE DispatchTo(subCommand, ops, unk)

\* isNullish as args[i] === null: neither a hole nor undefined passes
isNullishOnlyNull(a, i) == i + 1 <= Len(a) /\ a[i + 1] = Null

\* args[i] == null for the array `a` (0-based i): a hole, or undefined
isNullish(a, i) == i + 1 > Len(a) \/ a[i + 1] = Undefined

\* The array `a` padded with undefined up to length n
RECURSIVE padTo(_, _)
padTo(a, n) == IF Len(a) >= n THEN a ELSE padTo(Append(a, Undefined), n)

\* bindArgs without the test that the variadic descriptor is the last one
RECURSIVE bindArgsAnyVariadic(_, _, _)
bindArgsAnyVariadic(cmd, a, i) ==
  IF i >= Len(_args(cmd)) THEN CallAction(cmd, a)
  ELSE LET arg == _args(cmd)[i + 1]
       IN IF arg.required /\ isNullish(a, i)
          THEN ExitWith(1, "commander.missingArgument", arg.name)
          ELSE IF arg.variadic
          THEN bindArgsAnyVariadic(cmd,
                                   Append(padTo(sliceTo(a, i), i),
                                          [t |-> "array", a |-> slice(a, i)]),
                                   i + 1)
          ELSE bindArgsAnyVariadic(cmd, a, i + 1)

\* bindArgs with args[i] = args.splice(i, 1): the variadic takes one argument
RECURSIVE bindArgsSpliceOne(_, _, _)
bindArgsSpliceOne(cmd, a, i) ==
  IF i >= Len(_args(cmd)) THEN CallAction(cmd, a)
  ELSE LET arg == _args(cmd)[i + 1]
       IN IF arg.required /\ isNullish(a, i)
          THEN ExitWith(1, "commander.missingArgument", arg.name)
          ELSE IF arg.variadic
          THEN IF i # Len(_args(cmd)) - 1
               THEN ExitWith(1, "commander.variadicArgNotLast", arg.name)
               ELSE bindArgsSpliceOne(cmd,
                                      Append(padTo(sliceTo(a, i), i),
                                             [t |-> "array", a |-> sliceTo(slice(a, i), 1)])
                                        \o slice(a, i + 1),
                                      i + 1)
          ELSE bindArgsSpliceOne(cmd, a, i + 1)

\* this._args.forEach(function(arg, i) {...}) from descriptor i (0-based) on, over
\* the array `a`: the error it ends with, or the call of the action handler
RECURSIVE bindArgs(_, _, _)
bindArgs(cmd, a, i) ==
  IF i >= Len(_args(cmd)) THEN CallAction(cmd, a)
  ELSE LET arg == _args(cmd)[i + 1]
       IN IF arg.required /\ isNullish(a, i)
          THEN ExitWith(1, "commander.missingArgument", arg.name)
          ELSE IF arg.variadic
          THEN IF i # Len(_args(cmd)) - 1
               THEN ExitWith(1, "commander.variadicArgNotLast", arg.name)
               ELSE bindArgs(cmd,
                             Append(padTo(sliceTo(a, i), i), [t |-> "array", a |-> slice(a, i)]),
                             i + 1)
          ELSE bindArgs(cmd, a, i + 1)

\* The array of strings as JavaScript values
RECURSIVE asValues(_)
asValues(tokens) == IF tokens = <<>> THEN <<>> ELSE <<Str(Head(tokens))>> \o asValues(Tail(tokens))

\* terminal without the test for a `*` child
terminalNoWildcard(cmd, ops, unk, store) ==
  IF Len(commands(cmd)) > 0 /\ ops \o unk = <<>> /\ ~_actionHandler(cmd) /\ ~hasDefaultCommand(cmd)
  THEN ExitWith(1, "commander.help", <<>>)
  ELSE IF helpRequested(cmd, unk)
  THEN ExitWith(0, "commander.helpDisplayed", <<>>)
  ELSE IF _checkForMissingMandatoryOptions(cmd, store)
  THEN ExitWith(1, "commander.missingMandatoryOptionValue", <<>>)
  ELSE IF Len(unk) > 0 /\ ~_allowUnknownOption(cmd)
  THEN ExitWith(1, "commander.unknownOption", unk[1])
  ELSE IF _actionHandler(cmd)
  THEN bindArgs(cmd, asValues(ops \o unk), 0)
  ELSE IF Len(ops) > 0
  THEN IF hasCommandStarListener(cmd)
       THEN Return
       ELSE IF Len(commands(cmd)) > 0
       THEN ExitWith(1, "commander.unknownCommand", (ops \o unk)[1])
       ELSE Return
  ELSE IF Len(commands(cmd)) > 0
  THEN ExitWith(1, "commander.help", <<>>)
  ELSE Return

\* The listener of action(fn) applied to `a`: the arguments fn is called with,
\* the first this._args.length of `a`, the command (or its options), and the
\* array of the further ones if there are any
actionArgs(cmd, a) ==
  LET expectedArgsCount == Len(_args(cmd))
  IN padTo(sliceTo(a, expectedArgsCount), expectedArgsCount)
       \o <<[t |-> "object", of |-> cmd]>>
       \o (IF Len(a) > expectedArgsCount
           THEN <<[t |-> "array", a |-> slice(a, expectedArgsCount)]>>
           ELSE <<>>)

\* terminal binding the descriptors to the operands only
terminalDropsUnknown(cmd, ops, unk, store) ==
  IF Len(commands(cmd)) > 0 /\ ops \o unk = <<>> /\ ~_actionHandler(cmd) /\ ~hasDefaultCommand(cmd)
  THEN ExitWith(1, "commander.help", <<>>)
  ELSE IF helpRequested(cmd, unk)
  THEN ExitWith(0, "commander.helpDisplayed", <<>>)
  ELSE IF _checkForMissingMandatoryOptions(cmd, store)
  THEN ExitWith(1, "commander.missingMandatoryOptionValue", <<>>)
  ELSE IF Len(unk) > 0 /\ ~_allowUnknownOption(cmd)
  THEN ExitWith(1, "commander.unknownOption", unk[1])
  ELSE IF _actionHandler(cmd)
  THEN bindArgs(cmd, asValues(ops), 0)
  ELSE Return

\* terminal where unknownOption does not look at _allowUnknownOption
terminalNeverAllows(cmd, ops, unk, store) ==
  IF Len(commands(cmd)) > 0 /\ ops \o unk = <<>> /\ ~_actionHandler(cmd) /\ ~hasDefaultCommand(cmd)
  THEN ExitWith(1, "commander.help", <<>>)
  ELSE IF helpRequested(cmd, unk)
  THEN ExitWith(0, "commander.helpDisplayed", <<>>)
  ELSE IF _checkForMissingMandatoryOptions(cmd, store)
  THEN ExitWith(1, "commander.missingMandatoryOptionValue", <<>>)
  ELSE IF Len(unk) > 0
  THEN ExitWith(1, "commander.unknownOption", unk[1])
  ELSE IF _actionHandler(cmd)
  THEN bindArgs(cmd, asValues(ops \o unk), 0)
  ELSE Return

\* terminal testing the leftover unknown tokens before the mandatory options
terminalUnknownFirst(cmd, ops, unk, store) ==
  IF Len(commands(cmd)) > 0 /\ ops \o unk = <<>> /\ ~_actionHandler(cmd) /\ ~hasDefaultCommand(cmd)
  THEN ExitWith(1, "commander.help", <<>>)
  ELSE IF helpRequested(cmd, unk)
  THEN ExitWith(0, "commander.helpDisplayed", <<>>)
  ELSE IF Len(unk) > 0 /\ ~_allowUnknownOption(cmd)
  THEN ExitWith(1, "commander.unknownOption", unk[1])
  ELSE IF _checkForMissingMandatoryOptions(cmd, store)
  THEN ExitWith(1, "commander.missingMandatoryOptionValue", <<>>)
  ELSE IF _actionHandler(cmd)
  THEN bindArgs(cmd, asValues(ops \o unk), 0)
  ELSE Return

\* _parseCommand, the else branch: this level is terminal
terminal(cmd, ops, unk, store) ==
  IF Len(commands(cmd)) > 0 /\ ops \o unk = <<>> /\ ~_actionHandler(cmd) /\ ~hasDefaultCommand(cmd)
  THEN ExitWith(1, "commander.help", <<>>)
  ELSE IF helpRequested(cmd, unk)
  THEN ExitWith(0, "commander.helpDisplayed", <<>>)
  ELSE IF _checkForMissingMandatoryOptions(cmd, store)
  THEN ExitWith(1, "commander.missingMandatoryOptionValue", <<>>)
  ELSE IF Len(unk) > 0 /\ ~_allowUnknownOption(cmd)
  THEN ExitWith(1, "commander.unknownOption", unk[1])
  ELSE IF _actionHandler(cmd)
  THEN bindArgs(cmd, asValues(ops \o unk), 0)
  ELSE IF Len(ops) > 0
  THEN IF hasCommand(cmd, TokStar)
       THEN _dispatchSubcommand(cmd, TokStar, ops, unk, store)
       ELSE IF hasCommandStarListener(cmd)
       THEN Return
       ELSE IF Len(commands(cmd)) > 0
       THEN ExitWith(1, "commander.unknownCommand", (ops \o unk)[1])
       ELSE Return
  ELSE IF Len(commands(cmd)) > 0
  THEN ExitWith(1, "commander.help", <<>>)
  ELSE Return

\* _parseCommand where `help <child>` enters the child like `<child>` does
_parseCommandHelpAsName(cmd, ops, unk, store) ==
  IF Len(ops) > 0 /\ hasCommand(cmd, ops[1])
  THEN _dispatchSubcommand(cmd, ops[1], Tail(ops), unk, store)
  ELSE IF _lazyHasImplicitHelpCommand(cmd) /\ Len(ops) > 0 /\ ops[1] = _helpCommandName(cmd)
  THEN IF Len(ops) = 1
       THEN ExitWith(0, "commander.help", <<>>)
       ELSE _dispatchSubcommand(cmd, ops[2], Tail(Tail(ops)), unk, store)
  ELSE IF hasDefaultCommand(cmd)
  THEN IF helpRequested(cmd, unk)
       THEN ExitWith(0, "commander.helpDisplayed", <<>>)
       ELSE _dispatchSubcommand(cmd, _defaultCommandName(cmd), ops, unk, store)
  ELSE terminal(cmd, ops, unk, store)

\* _parseCommand trying the default command before the named child
_parseCommandDefaultFirst(cmd, ops, unk, store) ==
  IF hasDefaultCommand(cmd)
  THEN IF helpRequested(cmd, unk)
       THEN ExitWith(0, "commander.helpDisplayed", <<>>)
       ELSE _dispatchSubcommand(cmd, _defaultCommandName(cmd), ops, unk, store)
  ELSE IF Len(ops) > 0 /\ hasCommand(cmd, ops[1])
  THEN _dispatchSubcommand(cmd, ops[1], Tail(ops), unk, store)
  ELSE IF _lazyHasImplicitHelpCommand(cmd) /\ Len(ops) > 0 /\ ops[1] = _helpCommandName(cmd)
  THEN IF Len(ops) = 1
       THEN ExitWith(0, "commander.help", <<>>)
       ELSE _dispatchSubcommand(cmd, ops[2], <<>>, <<_helpLongFlag(cmd)>>, store)
  ELSE terminal(cmd, ops, unk, store)

\* _parseCommand handing a help request on to the default child
_parseCommandDefaultKeepsHelp(cmd, ops, unk, store) ==
  IF Len(ops) > 0 /\ hasCommand(cmd, ops[1])
  THEN _dispatchSubcommand(cmd, ops[1], Tail(ops), unk, store)
  ELSE IF _lazyHasImplicitHelpCommand(cmd) /\ Len(ops) > 0 /\ ops[1] = _helpCommandName(cmd)
  THEN IF Len(ops) = 1
       THEN ExitWith(0, "commander.help", <<>>)
       ELSE _dispatchSubcommand(cmd, ops[2], <<>>, <<_helpLongFlag(cmd)>>, store)
  ELSE IF hasDefaultCommand(cmd)
  THEN _dispatchSubcommand(cmd, _defaultCommandName(cmd), ops, unk, store)
  ELSE terminal(cmd, ops, unk, store)

\* _parseCommand(operands, unknown) once parseOptions has returned `parsed`:
\* ops is operands.concat(parsed.operands), unk is parsed.unknown. With
\* this.commands undefined, `this.commands.find` of _findCommand (operands[0] is
\* a name) or `this.commands.length` of _lazyHasImplicitHelpCommand (it is not)
\* throws
_parseCommand(cmd, ops, unk, store) ==
  IF thisCommands(cmd, store).t # "array"
  THEN TypeError
  ELSE IF Len(ops) > 0 /\ hasCommand(cmd, ops[1])
  THEN _dispatchSubcommand(cmd, ops[1], Tail(ops), unk, store)
  ELSE IF _lazyHasImplicitHelpCommand(cmd) /\ Len(ops) > 0 /\ ops[1] = _helpCommandName(cmd)
  THEN IF Len(ops) = 1
       THEN ExitWith(0, "commander.help", <<>>)
       ELSE _dispatchSubcommand(cmd, ops[2], <<>>, <<_helpLongFlag(cmd)>>, store)
  ELSE IF hasDefaultCommand(cmd)
  THEN IF helpRequested(cmd, unk)
       THEN ExitWith(0, "commander.helpDisplayed", <<>>)
       ELSE _dispatchSubcommand(cmd, _defaultCommandName(cmd), ops, unk, store)
  ELSE terminal(cmd, ops, unk, store)

\* The frame of the running _parseCommand, as it is suspended by a call
Frame ==
  [cmd |-> cur, carried |-> carried, input |-> input, args |-> args,
   operands |-> carried \o operands, unknown |-> unknown, dest |-> dest]

\* The step of _parseCommand that follows parseOptions: lines 778 to 836
Resolve ==
  /\ pc = "resolve"
  /\ \E ops \in {carried \o operands} :
     \E step \in {_parseCommand(cur, ops, unknown, optionValues)} :
        /\ thisArgs' = [thisArgs EXCEPT ![cur] = ops \o unknown]
        /\ IF step.kind = "dispatch"
           THEN /\ callers' = Append(callers, Frame)
                /\ cur' = step.to
                /\ carried' = step.operands
                /\ input' = step.unknown
                /\ args' = step.unknown
                /\ operands' = <<>>
                /\ unknown' = <<>>
                /\ dest' = "operands"
                /\ consumed' = <<>>
                /\ pc' = "parseOptions"
                /\ UNCHANGED <<outcome, actions, exitCallbackCalls>>
           ELSE /\ pc' = "done"
                /\ operands' = ops
                /\ outcome' = IF step.kind = "action" THEN Return
                              ELSE exited(_exitCallback[reporter(cur, step, optionValues)],
                                          step)
                /\ exitCallbackCalls' =
                     callbackCalls(_exitCallback[reporter(cur, step, optionValues)],
                                   exitCallbackCalls, step)
                /\ actions' = IF step.kind = "action"
                              THEN Append(actions, [cmd |-> step.cmd, args |-> step.args])
                              ELSE actions
                /\ UNCHANGED <<cur, carried, input, args, unknown, dest, consumed, callers>>
  /\ UNCHANGED <<argv, events, optionValues, _exitCallback, parseCalls>>

(***************************************************************************)
(* parse(argv) and the specification.                                      *)
(***************************************************************************)
\* The tokens the argument vectors are made of
Tokens ==
  { TokOp, TokSub, DashDash, <<"-">>,
    Short("p"), Short("x"), Short("c"), Short("s"), Short("z"),
    <<"-", "p", "x">>, <<"-", "p", "z">>, <<"-", "x", "p">>, <<"-", "c", "v">>,
    Long(ExtraName) \o <<"=", "a", "=", "b">>,
    Long(PepperName) \o <<"=", "v">>, <<"-", "-", "z", "z", "=", "v">> }

Argvs == UNION { [1..n -> Tokens] : n \in 0..MaxArgs }

\* The state once the trees are registered, but for the exit override
Registered ==
  /\ argv = <<>>
  /\ cur = "program"
  /\ carried = <<>>
  /\ input = <<>>
  /\ args = <<>>
  /\ operands = <<>>
  /\ unknown = <<>>
  /\ dest = "operands"
  /\ pc = "idle"
  /\ outcome = Running
  /\ events = <<>>
  /\ consumed = <<>>
  /\ optionValues = [c \in Commands |-> _optionEx(c, Len(options(c)))]
  /\ callers = <<>>
  /\ thisArgs = [c \in Commands |-> <<>>]
  /\ actions = <<>>
  /\ exitCallbackCalls = <<>>
  /\ parseCalls = 0

\* Registration without exitOverride: no command has an _exitCallback
Init == Registered /\ _exitCallback = [c \in Commands |-> "none"]

\* parse(argv): this._parseCommand([], argv.slice(2)), which starts with parseOptions
parse ==
  /\ pc = "idle"
  /\ \E a \in Argvs :
       /\ argv' = a
       /\ input' = a
       /\ args' = a
  /\ cur' = "program"
  /\ carried' = <<>>
  /\ operands' = <<>>
  /\ unknown' = <<>>
  /\ dest' = "operands"
  /\ consumed' = <<>>
  /\ pc' = "parseOptions"
  /\ parseCalls' = parseCalls + 1
  /\ UNCHANGED <<outcome, events, optionValues, callers, thisArgs, actions,
                 _exitCallback, exitCallbackCalls>>

Next ==
  \/ parse
  \/ ParseOptionsStep
  \/ Resolve

Spec == Init /\ [][Next]_vars

(***************************************************************************)
(* The further programs: parse(argv) on app, tool, cp, ls and hub.         *)
(***************************************************************************)
TokHelp == <<"h", "e", "l", "p">>
TokX == <<"x">>
TokY == <<"y">>
TokZ == <<"z">>

\* The programs of the second specification
TreeRoots == {"app", "tool", "cp", "ls", "hub", "one", "two"}

\* The tokens the argument vectors of each program are made of
TreeTokens(root) ==
  CASE root = "app" -> { TokBuild, TokB, TokRun, TokHelp, TokX,
                         <<"-", "m", "x">>, Short("z"), Long(TokHelp), Short("h") }
    [] root = "tool" -> { TokMk, TokGrp, TokWild, TokSvc, TokHelp, TokX,
                          Short("z"), Long(TokHelp), Short("h") }
    [] root = "cp" -> { TokX, TokY, TokZ }
    [] root = "ls" -> { TokX, TokY }
    [] root = "hub" -> { TokHx, TokX, Short("m"), <<"-", "m", "x">>, Short("z"),
                         Long(TokHelp) }
    [] root = "one" -> { TokA, TokB }
    [] root = "two" -> { TokA, TokB }

TreeArgvs(root) == UNION { [1..n -> TreeTokens(root)] : n \in 0..MaxArgs }

\* parse(argv) called on one of the programs
parseTree ==
  /\ pc = "idle"
  /\ \E root \in TreeRoots :
       /\ cur' = root
       /\ \E a \in TreeArgvs(root) :
            /\ argv' = a
            /\ input' = a
            /\ args' = a
  /\ carried' = <<>>
  /\ operands' = <<>>
  /\ unknown' = <<>>
  /\ dest' = "operands"
  /\ consumed' = <<>>
  /\ pc' = "parseOptions"
  /\ parseCalls' = parseCalls + 1
  /\ UNCHANGED <<outcome, events, optionValues, callers, thisArgs, actions,
                 _exitCallback, exitCallbackCalls>>

TreeNext ==
  \/ parseTree
  \/ ParseOptionsStep
  \/ Resolve

TreeSpec == Init /\ [][TreeNext]_vars

(***************************************************************************)
(* The same programs embedded: registered with an exit override.           *)
(***************************************************************************)
\* exitOverride() installs a callback that throws the CommanderError;
\* exitOverride(fn) installs fn, which may return
ExitCallbackKinds == {"throws", "returns"}

\* What registration can leave in this._exitCallback of the commands:
\* exitOverride not called; called on the program before its commands were
\* registered, so that command() has copied the callback to each of them; or
\* called on the program after (or the commands were attached with addCommand,
\* which copies nothing), so that the program alone has it
ExitCallbacks ==
  {[c \in Commands |-> "none"]}
    \cup {[c \in Commands |-> m] : m \in ExitCallbackKinds}
    \cup {[c \in Commands |-> IF c \in Roots THEN m ELSE "none"] : m \in ExitCallbackKinds}

EmbedInit == Registered /\ _exitCallback \in ExitCallbacks

EmbedSpec == EmbedInit /\ [][TreeNext]_vars

(***************************************************************************)
(* The programs of the value binder: parse(argv) on neg, dflt, pn, np, acc.*)
(***************************************************************************)
\* The programs of the third specification
BindRoots == {"neg", "dflt", "pn", "np", "acc"}

\* The tokens the argument vectors of each of them are made of
BindTokens(root) ==
  CASE root = "neg" -> { Long(NoCheeseName), DashDash, TokX, Short("z") }
    [] root = "dflt" -> { Short("a"), Short("z"), Short("e"), Short("b"), Short("d"),
                          Short("o"), TokX, <<"-", "a", "a">>, <<"-", "d", "d">> }
    [] root = "pn" -> { Long(FooName), Long(NoFooName), TokX }
    [] root = "np" -> { Long(FooName), Long(NoFooName) }
    [] root = "acc" -> { Short("n"), Short("s"), TokX, <<"-", "n", "x">>, <<"-", "n", "y">>,
                         <<"-", "s", "x", "y">>, <<"-", "s", "y">> }

BindArgvs(root) == UNION { [1..n -> BindTokens(root)] : n \in 0..MaxArgs }

\* parse(argv) called on one of these programs
parseBind ==
  /\ pc = "idle"
  /\ \E root \in BindRoots :
       /\ cur' = root
       /\ \E a \in BindArgvs(root) :
            /\ argv' = a
            /\ input' = a
            /\ args' = a
  /\ carried' = <<>>
  /\ operands' = <<>>
  /\ unknown' = <<>>
  /\ dest' = "operands"
  /\ consumed' = <<>>
  /\ pc' = "parseOptions"
  /\ parseCalls' = parseCalls + 1
  /\ UNCHANGED <<outcome, events, optionValues, callers, thisArgs, actions,
                 _exitCallback, exitCallbackCalls>>

BindNext ==
  \/ parseBind
  \/ ParseOptionsStep
  \/ Resolve

BindSpec == Init /\ [][BindNext]_vars

(***************************************************************************)
(* A session: parse(argv) called again on a program whose parse returned.  *)
(***************************************************************************)
\* The most calls of parse() in a session
MaxParses == 2

\* The programs of a session
SessionRoots == {"neg", "acc"}

\* The tokens the argument vectors of a session are made of
SessionTokens(root) ==
  CASE root = "neg" -> { Long(NoCheeseName), TokX }
    [] root = "acc" -> { <<"-", "n", "x">>, <<"-", "s", "x", "y">>, TokX }

SessionArgvs(root) == UNION { [1..n -> SessionTokens(root)] : n \in 0..MaxArgs }

\* The program of the running parse: the bottom of the call stack
rootCommand == IF callers = <<>> THEN cur ELSE callers[1].cmd

\* parse(argv) called on a program, for the first time or once an earlier
\* parse(argv) on it has returned to its caller: nothing of the commands is
\* reset (the store, this.args and _actionResults are as the last parse left them)
parseSession ==
  /\ parseCalls < MaxParses
  /\ \/ pc = "idle"
     \/ pc = "done" /\ outcome = Return
  /\ \E root \in (IF pc = "idle" THEN SessionRoots ELSE {rootCommand}) :
       /\ cur' = root
       /\ \E a \in SessionArgvs(root) :
            /\ argv' = a
            /\ input' = a
            /\ args' = a
  /\ carried' = <<>>
  /\ operands' = <<>>
  /\ unknown' = <<>>
  /\ dest' = "operands"
  /\ consumed' = <<>>
  /\ callers' = <<>>
  /\ outcome' = Running
  /\ pc' = "parseOptions"
  /\ parseCalls' = parseCalls + 1
  /\ UNCHANGED <<events, optionValues, thisArgs, actions, _exitCallback, exitCallbackCalls>>

SessionNext ==
  \/ parseSession
  \/ ParseOptionsStep
  \/ Resolve

SessionSpec == Init /\ [][SessionNext]_vars

(***************************************************************************)
(* One parse run to its end: parse(argv) is synchronous, so once it is     *)
(* called the loop of parseOptions and the steps of _parseCommand go on    *)
(* until the call returns, throws or exits.                                *)
(***************************************************************************)
\* The programs whose parses are followed to their end: program (boolean
\* options, the child sub) and tool (children of children)
LiveRoots == {"program", "tool"}

\* The tokens their argument vectors are made of
LiveTokens(root) ==
  CASE root = "program" -> { TokSub, TokX, <<"-", "s", "p">>, <<"-", "p", "z">>,
                             <<"-", "p", "p", "x">> }
    [] root = "tool" -> { TokGrp, <<"i", "n">>, TokWild, TokSvc, TokHelp, TokX }

LiveArgvs(root) == UNION { [1..n -> LiveTokens(root)] : n \in 0..MaxArgs }

\* parse(argv) called on one of them
parseLive ==
  /\ pc = "idle"
  /\ \E root \in LiveRoots :
       /\ cur' = root
       /\ \E a \in LiveArgvs(root) :
            /\ argv' = a
            /\ input' = a
            /\ args' = a
  /\ carried' = <<>>
  /\ operands' = <<>>
  /\ unknown' = <<>>
  /\ dest' = "operands"
  /\ consumed' = <<>>
  /\ pc' = "parseOptions"
  /\ parseCalls' = parseCalls + 1
  /\ UNCHANGED <<outcome, events, optionValues, callers, thisArgs, actions,
                 _exitCallback, exitCallbackCalls>>

LiveNext ==
  \/ parseLive
  \/ ParseOptionsStep
  \/ Resolve

LiveSpec ==
  /\ Init
  /\ [][LiveNext]_vars
  /\ WF_vars(ParseOptionsStep)
  /\ WF_vars(Resolve)

(***************************************************************************)
(* Parses of a program whose option is stored under the name of a field,   *)
(* next to parses of program, which has options at both levels.            *)
(***************************************************************************)
FrameRoots == {"clash", "program"}

\* The tokens their argument vectors are made of
FrameTokens(root) ==
  CASE root = "clash" -> { Long(CommandsName), TokSub, TokX }
    [] root = "program" -> { TokSub, TokX, Short("p"), Short("s") }

FrameArgvs(root) == UNION { [1..n -> FrameTokens(root)] : n \in 0..MaxArgs }

\* parse(argv) called on one of them
parseFrame ==
  /\ pc = "idle"
  /\ \E root \in FrameRoots :
       /\ cur' = root
       /\ \E a \in FrameArgvs(root) :
            /\ argv' = a
            /\ input' = a
            /\ args' = a
  /\ carried' = <<>>
  /\ operands' = <<>>
  /\ unknown' = <<>>
  /\ dest' = "operands"
  /\ consumed' = <<>>
  /\ pc' = "parseOptions"
  /\ parseCalls' = parseCalls + 1
  /\ UNCHANGED <<outcome, events, optionValues, callers, thisArgs, actions,
                 _exitCallback, exitCallbackCalls>>

FrameNext ==
  \/ parseFrame
  \/ ParseOptionsStep
  \/ Resolve

FrameSpec == Init /\ [][FrameNext]_vars

(***************************************************************************)
(* Properties of parseOptions.                                             *)
(***************************************************************************)
\* The token is option-shaped and is matched neither as a flag, nor as a short
\* cluster, nor as --name=value: parseOptions reaches `dest = unknown` with it
Unrecognised(cmd, arg) ==
  /\ maybeOption(arg)
  /\ arg # DashDash
  /\ ~Recognised(cmd, arg)
  /\ ~IsCombo(cmd, arg)
  /\ ~IsLongWithValue(cmd, arg)

\* s is a subsequence of t
RECURSIVE IsSubSeq(_, _)
IsSubSeq(s, t) ==
  IF s = <<>> THEN TRUE
  ELSE IF t = <<>> THEN FALSE
  ELSE IF Head(s) = Head(t) THEN IsSubSeq(Tail(s), Tail(t))
  ELSE IsSubSeq(s, Tail(t))

\* The tokens of the input that the running call has taken off its queue
Scanned == SubSeq(input, 1, Len(input) - Len(args))

\* C1: within one parseOptions call, from the iteration that meets the first
\* unrecognised option-shaped token on, the destination is `unknown` and nothing
\* is appended to operands; before it, operands holds tokens of the scanned part
\* of the input only, in input order.
C1_OperandsFrozen ==
  /\ [](pc = "parseOptions" => IsSubSeq(operands, Scanned))
  /\ [][(/\ pc = "parseOptions"
         /\ \/ dest = "unknown"
            \/ (args # <<>> /\ Unrecognised(cur, Head(args))))
        => (operands' = operands /\ dest' = "unknown")]_vars

\* C1 witness: a plain token met after the first unrecognised token went to
\* unknown, and the operand collected before it is all operands holds
C1_Witness ==
  /\ pc = "resolve"
  /\ dest = "unknown"
  /\ operands = <<TokOp>>
  /\ unknown = <<Short("z"), TokOp>>

\* u is the remainder `-R` that a boolean short cluster t re-injects (possibly
\* after several flags of t were eaten)
IsRemainder(u, t) ==
  /\ Len(t) > 2
  /\ t[1] = "-"
  /\ \E k \in 2..(Len(t) - 1) : u = <<"-">> \o SubSeq(t, k + 1, Len(t))

\* u is the input token t, or what is left of it
Matches(u, t) == u = t \/ IsRemainder(u, t)

\* C2 as claimed: the unknown sequence parseOptions returns is the first
\* unrecognised option-shaped token followed by every input token after it.
C2_UnknownIsInputSuffix ==
  pc = "resolve" =>
    \/ unknown = <<>>
    \/ \E p \in 1..Len(input) :
         /\ Matches(unknown[1], input[p])
         /\ Unrecognised(cur, unknown[1])
         /\ Tail(unknown) = SubSeq(input, p + 1, Len(input))

\* C2 as amended: unknown is empty until the first unrecognised option-shaped
\* token is met and starts with that token; from then on every token met is
\* appended to it in order, except the tokens matched as a registered option
\* (flag, short cluster, --name=value) and the values they take, which are still
\* consumed as options; a `--` met then is appended with every token behind it.
C2_UnknownAmended ==
  /\ [](pc \in {"parseOptions", "resolve"} =>
          /\ dest = "operands" => unknown = <<>>
          /\ unknown # <<>> => Unrecognised(cur, unknown[1]))
  /\ [][(/\ pc = "parseOptions"
         /\ args # <<>>
         /\ \/ dest = "unknown"
            \/ Unrecognised(cur, Head(args)))
        => unknown' =
             IF Head(args) = DashDash THEN unknown \o args
             ELSE IF \/ Recognised(cur, Head(args))
                     \/ IsCombo(cur, Head(args))
                     \/ IsLongWithValue(cur, Head(args))
             THEN unknown
             ELSE Append(unknown, Head(args))]_vars

\* C2 witness: `-z -p op` returned unknown = [-z, op], the -p in between having
\* been emitted as an occurrence
C2_Witness ==
  /\ pc = "resolve"
  /\ input = <<Short("z"), Short("p"), TokOp>>
  /\ unknown = <<Short("z"), TokOp>>
  /\ Len(events) = 1

\* How many times the token t occurs in s
Count(s, t) == Cardinality({i \in 1..Len(s) : s[i] = t})

\* The tokens of a sequence
Range(s) == {s[i] : i \in 1..Len(s)}

\* C3 as claimed: the multiset union of operands, unknown and the values consumed
\* by options equals the multiset of input tokens.
C3_MultisetEquality ==
  pc = "resolve" =>
    \A t \in Range(input) \cup Range(operands) \cup Range(unknown) \cup Range(consumed) :
      Count(operands, t) + Count(unknown, t) + Count(consumed, t) = Count(input, t)

\* The tokens of the input at the positions in P, in input order
RECURSIVE Proj(_, _, _)
Proj(tokens, P, i) ==
  IF i > Len(tokens) THEN <<>>
  ELSE IF i \in P THEN <<tokens[i]>> \o Proj(tokens, P, i + 1)
  ELSE Proj(tokens, P, i + 1)

\* The sequence us is ts with some tokens replaced by their remainders
MatchesAll(us, ts) ==
  /\ Len(us) = Len(ts)
  /\ \A i \in 1..Len(us) : Matches(us[i], ts[i])

\* C3 as amended: nothing is duplicated or invented. The input positions split
\* into three disjoint sets and a rest: operands is the input at the first set,
\* unknown the input at the second (a re-injected cluster remainder `-R` standing
\* for its cluster token), the values consumed by options the input at the third,
\* each in input order; the rest, which appears in none of them, is made of
\* option-shaped tokens only (tokens matched as options, and a `--`).
C3_Accounting ==
  pc = "resolve" =>
    LET I == 1..Len(input)
    IN \E A \in SUBSET {i \in I : input[i] \in Range(operands)} :
         /\ Proj(input, A, 1) = operands
         /\ \E B \in SUBSET {i \in I \ A : \E u \in Range(unknown) : Matches(u, input[i])} :
              /\ MatchesAll(unknown, Proj(input, B, 1))
              /\ \E C \in SUBSET {i \in I \ (A \cup B) : input[i] \in Range(consumed)} :
                   /\ Proj(input, C, 1) = consumed
                   /\ \A i \in I \ (A \cup B \cup C) : maybeOption(input[i])

\* C3 witness: `-x op -pz` returned with a value consumed, a flag token that is
\* in none of the three sequences and a cluster remainder in unknown
C3_Witness ==
  /\ pc = "resolve"
  /\ input = <<Short("x"), TokOp, <<"-", "p", "z">>>>
  /\ consumed = <<TokOp>>
  /\ unknown = <<Short("z")>>
  /\ operands = <<>>

\* C4: when `--` is met, the tokens behind it are appended verbatim and in order
\* to the destination of that moment, the `--` itself is kept only when that
\* destination is unknown, no occurrence is emitted, no value is bound, and the
\* scan stops (the call returns).
C4_Literal ==
  [][(pc = "parseOptions" /\ args # <<>> /\ Head(args) = DashDash)
     => /\ pc' = "resolve"
        /\ dest' = dest
        /\ events' = events
        /\ optionValues' = optionValues
        /\ consumed' = consumed
        /\ IF dest = "unknown"
           THEN unknown' = (unknown \o <<DashDash>>) \o Tail(args) /\ operands' = operands
           ELSE operands' = operands \o Tail(args) /\ unknown' = unknown]_vars

\* C4 witness: a call returned after a `--` met while the destination was
\* unknown, with a registered flag behind it kept as a token
C4_Witness ==
  /\ pc = "resolve"
  /\ input = <<Short("z"), DashDash, Short("p")>>
  /\ unknown = <<Short("z"), DashDash, Short("p")>>
  /\ events = <<>>

(***************************************************************************)
(* Properties across levels.                                               *)
(***************************************************************************)
\* The frame of the caller of the running _parseCommand
Caller == callers[Len(callers)]

\* The running _parseCommand was called for a child that operands[0] named
CalledByName ==
  /\ callers # <<>>
  /\ Len(Caller.operands) > 0
  /\ hasCommand(Caller.cmd, Caller.operands[1])

\* The caller's scan ended at a `--` met while its destination was operands;
\* Caller.args are the tokens that followed the `--`
CallerEndedAtLiteral ==
  /\ CalledByName
  /\ Caller.dest = "operands"
  /\ Caller.args # <<>>

\* The tokens that followed the caller's `--`, without the child's name when
\* the name itself came first behind the `--`
BehindLiteral ==
  IF Len(Caller.args) = Len(Caller.operands) THEN Tail(Caller.args) ELSE Caller.args

\* C5: a child entered by name gets the operands the parent collected (after
\* the name) as its operands and tokenizes the parent's unknown tokens only; the
\* tokens behind a `--` met while the parent's destination was operands are among
\* those operands, and from then on no occurrence is emitted and no value bound
\* at any level. `sub -- -s` runs the action of sub with the operand -s, -s
\* being a flag sub registers.
C5_AcrossLevels ==
  /\ [](CalledByName =>
          /\ carried = Tail(Caller.operands)
          /\ input = Caller.unknown
          /\ (pc = "done" /\ outcome = Return) =>
               /\ SubSeq(operands, 1, Len(carried)) = carried
               /\ actions # <<>>
               /\ actions[Len(actions)].cmd = cur
               /\ SubSeq(actions[Len(actions)].args, 1, Len(carried)) = asValues(carried))
  /\ [](CallerEndedAtLiteral =>
          /\ Len(BehindLiteral) <= Len(carried)
          /\ SubSeq(carried, Len(carried) - Len(BehindLiteral) + 1, Len(carried)) = BehindLiteral
          /\ input = <<>>)
  /\ [][CallerEndedAtLiteral => (events' = events /\ optionValues' = optionValues)]_vars
  /\ []((argv = <<TokSub, DashDash, Short("s")>> /\ pc = "done") =>
          /\ cur = "sub"
          /\ operands = <<Short("s")>>
          /\ unknown = <<>>
          /\ events = <<>>
          /\ outcome = Return)

\* C5 witness: `sub -- -s` has run the action of sub with the operand -s
C5_Witness ==
  /\ argv = <<TokSub, DashDash, Short("s")>>
  /\ pc = "done"
  /\ cur = "sub"
  /\ CallerEndedAtLiteral
  /\ actions = <<[cmd |-> "sub", args |-> <<Str(Short("s"))>>]>>

(***************************************************************************)
(* Properties of the option forms.                                         *)
(***************************************************************************)
\* The token at the head of the queue is met by the scan and is a registered flag
MeetsFlag ==
  /\ pc = "parseOptions"
  /\ args # <<>>
  /\ Head(args) # DashDash
  /\ Recognised(cur, Head(args))

\* The occurrence of an option of the running command
Occurrence(option, val) == [cmd |-> cur, name |-> option.name, val |-> val]

\* C6: when the token met is a registered flag of Required arity, the token
\* behind it, whatever it is, is taken as the value and an occurrence with that
\* value is emitted; with no token behind it the parse ends with
\* optionMissingArgument, exit code 1, and emits nothing.
C6_Required ==
  [][(MeetsFlag /\ _findOption(cur, Head(args)).required)
     => LET option == _findOption(cur, Head(args))
        IN IF Len(args) >= 2
           THEN /\ events' = Append(events, Occurrence(option, Str(args[2])))
                /\ args' = SubSeq(args, 3, Len(args))
                /\ consumed' = Append(consumed, args[2])
                /\ pc' = "parseOptions"
                /\ outcome' = Running
                /\ UNCHANGED <<operands, unknown, dest>>
           ELSE /\ pc' = "done"
                /\ outcome'.kind = "exit"
                /\ outcome'.exitCode = 1
                /\ outcome'.code = "commander.optionMissingArgument"
                /\ events' = events]_vars

\* C6 witness: `-x -- -p`: the `--` was taken as the value of -x and the scan
\* went on to -p
C6_Witness ==
  /\ pc = "resolve"
  /\ input = <<Short("x"), DashDash, Short("p")>>
  /\ events = << [cmd |-> "program", name |-> ExtraName, val |-> Str(DashDash)],
                 [cmd |-> "program", name |-> PepperName, val |-> Undefined] >>

\* C7: when the token met is a registered flag of Optional arity, the token
\* behind it is taken as the value if and only if there is one and it is not
\* option-shaped; otherwise the occurrence carries null and the token stays in
\* the queue. The parse never ends with optionMissingArgument for it: that exit
\* names a Required option.
C7_Optional ==
  /\ [][(/\ MeetsFlag
         /\ ~_findOption(cur, Head(args)).required
         /\ _findOption(cur, Head(args)).optional)
        => LET option == _findOption(cur, Head(args))
           IN /\ pc' = "parseOptions"
              /\ outcome' = Running
              /\ UNCHANGED <<operands, unknown, dest>>
              /\ IF Len(args) >= 2 /\ ~(Len(args[2]) >= 2 /\ args[2][1] = "-")
                 THEN /\ events' = Append(events, Occurrence(option, Str(args[2])))
                      /\ args' = SubSeq(args, 3, Len(args))
                 ELSE /\ events' = Append(events, Occurrence(option, Null))
                      /\ args' = Tail(args)]_vars
  /\ []((outcome.kind = "exit" /\ outcome.code = "commander.optionMissingArgument")
          => \E i \in 1..Len(options(cur)) :
               /\ options(cur)[i].long = outcome.detail
               /\ options(cur)[i].required
               /\ ~options(cur)[i].optional)

\* C7 witness: `-c -p op`: -c got null with a flag behind it, and the flag was
\* then scanned as an option
C7_Witness ==
  /\ pc = "resolve"
  /\ input = <<Short("c"), Short("p"), TokOp>>
  /\ events = << [cmd |-> "program", name |-> CheeseName, val |-> Null],
                 [cmd |-> "program", name |-> PepperName, val |-> Undefined] >>
  /\ operands = <<TokOp>>

\* The token is a short cluster whose first flag is a registered option
IsCluster(cmd, arg) ==
  /\ arg # DashDash
  /\ ~Recognised(cmd, arg)
  /\ Len(arg) > 2
  /\ arg[1] = "-"
  /\ arg[2] # "-"
  /\ hasOption(cmd, <<"-", arg[2]>>)

\* The first flag of a cluster, as an option
FirstOf(cmd, arg) == _findOption(cmd, <<"-", arg[2]>>)

\* The cluster -xR written as the two tokens -x and -R
SplitCluster(arg) == << <<"-", arg[2]>>, <<"-">> \o SubSeq(arg, 3, Len(arg)) >>

\* C8: when the scan meets a cluster -xR whose first flag -x is a registered
\* boolean option, the call ends in the same state (occurrences, bound values,
\* operands, unknown, consumed values, error) as with the two tokens -x, -R in
\* its place. With -px, -p boolean and -x Required: -p is emitted, then -x takes
\* the following token as its value, or the parse ends with
\* optionMissingArgument if nothing follows.
C8_BooleanCluster ==
  (/\ pc = "parseOptions"
   /\ args # <<>>
   /\ IsCluster(cur, Head(args))
   /\ ~FirstOf(cur, Head(args)).required
   /\ ~FirstOf(cur, Head(args)).optional)
  => LET asCluster == parseOptions(cur, State)
         asTwo == parseOptions(cur, [State EXCEPT !.args = SplitCluster(Head(args)) \o Tail(args)])
         n == Len(events)
     IN /\ asCluster = asTwo
        /\ (cur = "program" /\ Head(args) = <<"-", "p", "x">>) =>
             /\ Len(asCluster.events) > n
             /\ asCluster.events[n + 1] = Occurrence(options(cur)[1], Undefined)
             /\ IF Len(args) = 1
                THEN /\ asCluster.pc = "done"
                     /\ asCluster.outcome.code = "commander.optionMissingArgument"
                     /\ Len(asCluster.events) = n + 1
                ELSE /\ Len(asCluster.events) > n + 1
                     /\ asCluster.events[n + 2] = Occurrence(options(cur)[2], Str(args[2]))

\* C8 witness: `-px op` returned with -p emitted and -x bound to the following token
C8_Witness ==
  /\ pc = "resolve"
  /\ input = <<<<"-", "p", "x">>, TokOp>>
  /\ events = << [cmd |-> "program", name |-> PepperName, val |-> Undefined],
                 [cmd |-> "program", name |-> ExtraName, val |-> Str(TokOp)] >>
  /\ operands = <<>>

\* C9: when the scan meets a cluster -xR (not itself a registered flag) whose
\* first flag -x is a registered option of Required or Optional arity, one
\* occurrence of -x is emitted with R, all that follows the first two characters,
\* as its value, and no following token is consumed.
C9_ValueCluster ==
  [][(/\ pc = "parseOptions"
      /\ args # <<>>
      /\ IsCluster(cur, Head(args))
      /\ (FirstOf(cur, Head(args)).required \/ FirstOf(cur, Head(args)).optional))
     => /\ events' = Append(events, Occurrence(FirstOf(cur, Head(args)),
                                               Str(SubSeq(Head(args), 3, Len(Head(args))))))
        /\ args' = Tail(args)
        /\ pc' = "parseOptions"
        /\ outcome' = Running
        /\ UNCHANGED <<operands, unknown, dest, consumed>>]_vars

\* C9 witness: `-xp -cv op`: both values came from the clusters and the token
\* behind them was left as an operand
C9_Witness ==
  /\ pc = "resolve"
  /\ input = <<<<"-", "x", "p">>, <<"-", "c", "v">>, TokOp>>
  /\ events = << [cmd |-> "program", name |-> ExtraName, val |-> Str(<<"p">>)],
                 [cmd |-> "program", name |-> CheeseName, val |-> Str(<<"v">>)] >>
  /\ operands = <<TokOp>>
  /\ consumed = <<>>

\* The token has the form --name=value with a non-empty name
HasLongValueForm(arg) ==
  /\ Len(arg) >= 4
  /\ SubSeq(arg, 1, 2) = DashDash
  /\ arg[3] # "="
  /\ \E k \in 4..Len(arg) : arg[k] = "="

\* The position of the first `=` of the token
FirstEquals(arg) == CHOOSE k \in 1..Len(arg) : arg[k] = "=" /\ \A j \in 1..(k - 1) : arg[j] # "="

\* Whether the command registers the long flag `long` with a value
TakesValue(cmd, long) ==
  \E i \in 1..Len(options(cmd)) :
    /\ \A j \in 1..(i - 1) : ~is(options(cmd)[j], long)
    /\ is(options(cmd)[i], long)
    /\ (options(cmd)[i].required \/ options(cmd)[i].optional)

\* C10: when the scan meets a token --name=value (not itself a registered flag):
\* if --name is a registered option of Required or Optional arity, one occurrence
\* is emitted whose value is all that follows the first `=`, and no other token
\* is consumed; if --name is a boolean option or is not registered, the whole
\* token goes to unknown, which becomes the destination, and nothing is emitted.
C10_LongWithValue ==
  [][(/\ pc = "parseOptions"
      /\ args # <<>>
      /\ HasLongValueForm(Head(args))
      /\ ~Recognised(cur, Head(args)))
     => LET arg == Head(args)
            k == FirstEquals(arg)
            long == SubSeq(arg, 1, k - 1)
        IN /\ args' = Tail(args)
           /\ pc' = "parseOptions"
           /\ outcome' = Running
           /\ consumed' = consumed
           /\ operands' = operands
           /\ IF TakesValue(cur, long)
              THEN /\ events' = Append(events, Occurrence(_findOption(cur, long),
                                                          Str(SubSeq(arg, k + 1, Len(arg)))))
                   /\ UNCHANGED <<unknown, dest>>
              ELSE /\ events' = events
                   /\ optionValues' = optionValues
                   /\ dest' = "unknown"
                   /\ unknown' = Append(unknown, arg)]_vars

\* C10 witness: `--extra=a=b --pepper=v --zz=v`: the first gave the value a=b,
\* the other two went to unknown
C10_Witness ==
  /\ pc = "resolve"
  /\ input = <<Long(ExtraName) \o <<"=", "a", "=", "b">>,
               Long(PepperName) \o <<"=", "v">>,
               <<"-", "-", "z", "z", "=", "v">>>>
  /\ events = << [cmd |-> "program", name |-> ExtraName, val |-> Str(<<"a", "=", "b">>)] >>
  /\ unknown = <<Long(PepperName) \o <<"=", "v">>, <<"-", "-", "z", "z", "=", "v">>>>
  /\ operands = <<>>

(***************************************************************************)
(* Properties of the resolver.                                             *)
(***************************************************************************)
\* The operands _parseCommand resolves: the carried ones, then the parsed ones
Merged == carried \o operands

\* The command c is a child of cmd registered under the name or alias `name`
IsChildNamed(cmd, c, name) ==
  /\ \E i \in 1..Len(commands(cmd)) : commands(cmd)[i] = c
  /\ _name(c) = name \/ (hasAlias(c) /\ _alias(c) = name)

\* operands[0] is the name or the alias of a child of the running command
NamesChild ==
  /\ Merged # <<>>
  /\ \E c \in Commands : IsChildNamed(cur, c, Merged[1])

\* C11: when _parseCommand resolves operands whose first is the name or alias
\* of a registered child, that child is entered with operands[1:] as its carried
\* operands and the unknown tokens as its input, so neither the implicit help
\* command nor the default child is used; and a child that is handed all the
\* operands of its caller (the default child) has a caller whose operands[0]
\* names none of the caller's children.
C11_ChildFirst ==
  /\ [][(pc = "resolve" /\ NamesChild)
        => /\ pc' = "parseOptions"
           /\ IsChildNamed(cur, cur', Merged[1])
           /\ carried' = Tail(Merged)
           /\ input' = unknown
           /\ outcome' = Running]_vars
  /\ []((callers # <<>> /\ carried = Caller.operands /\ Caller.operands # <<>>)
          => ~\E c \in Commands : IsChildNamed(Caller.cmd, c, Caller.operands[1]))

\* C11 witness: `b x` on app, which has a default child and the implicit help
\* command: build was entered through its alias, with the operand x
C11_Witness ==
  /\ argv = <<TokB, TokX>>
  /\ cur = "build"
  /\ callers # <<>>
  /\ Caller.cmd = "app"
  /\ carried = <<TokX>>
  /\ pc = "done"
  /\ actions = <<>>

\* The implicit help command of cmd is on: children, no action, no child `help`
HelpCommandOn(cmd) ==
  /\ commands(cmd) # <<>>
  /\ ~_actionHandler(cmd)
  /\ ~\E c \in Commands : IsChildNamed(cmd, c, TokHelp)

\* operands[0] is the name of the implicit help command of the running command
NamesHelp == HelpCommandOn(cur) /\ Merged # <<>> /\ Merged[1] = TokHelp

\* _parseCommand is about to resolve a terminal level: no child named, no
\* implicit help command named, no default child
AtTerminal ==
  /\ pc = "resolve"
  /\ ~NamesChild
  /\ ~NamesHelp
  /\ ~hasDefaultCommand(cur)

\* A help flag is among the unknown tokens
HelpFlagLeft == \E i \in 1..Len(unknown) : unknown[i] \in {Long(TokHelp), Short("h")}

\* The command and its ancestors up to the root
RECURSIVE UpToRoot(_)
UpToRoot(c) == {c} \cup (IF hasParent(c) THEN UpToRoot(parent(c)) ELSE {})

\* A mandatory option of command c has no value
LacksMandatory(c) ==
  \E i \in 1..Len(options(c)) :
    /\ options(c)[i].mandatory
    /\ optionValues[c][attributeName(options(c)[i])] = Undefined

\* A mandatory option of the running command or of an ancestor has no value
MandatoryMissing == \E c \in UpToRoot(cur) : LacksMandatory(c)

\* An unknown token is left and the running command does not allow it
UnknownLeft == unknown # <<>> /\ ~_allowUnknownOption(cur)

\* The step ends the parse with the exit `code`, exit code `exitCode`, no action run
Exits(exitCode, code) ==
  /\ pc' = "done"
  /\ outcome'.kind = "exit"
  /\ outcome'.exitCode = exitCode
  /\ outcome'.code = code
  /\ actions' = actions

\* A descriptor of the running command cannot be bound to the arguments: a
\* required one beyond the arguments, or a variadic one that is not last
PositionalFault ==
  \E i \in 1..Len(_args(cur)) :
    \/ _args(cur)[i].required /\ i > Len(Merged \o unknown)
    \/ _args(cur)[i].variadic /\ i # Len(_args(cur))

\* The order of the checks from the help flag on
ChecksInOrder ==
  IF HelpFlagLeft THEN Exits(0, "commander.helpDisplayed")
  ELSE IF MandatoryMissing THEN Exits(1, "commander.missingMandatoryOptionValue")
  ELSE IF UnknownLeft THEN Exits(1, "commander.unknownOption") /\ outcome'.detail = unknown[1]
  ELSE _actionHandler(cur) =>
         IF PositionalFault
         THEN \/ Exits(1, "commander.missingArgument")
              \/ Exits(1, "commander.variadicArgNotLast")
         ELSE /\ pc' = "done"
              /\ outcome' = Return
              /\ Len(actions') = Len(actions) + 1

\* C12 as stated: at a terminal level the outcome is the first that applies of
\* help flag among the unknown tokens, missing mandatory option, leftover unknown
\* token, positional-binding error.
C12_TerminalOrder == [][AtTerminal => ChecksInOrder]_vars

\* The level has children, no action, and neither an operand nor an unknown token
NothingToRun ==
  /\ commands(cur) # <<>>
  /\ ~_actionHandler(cur)
  /\ Merged \o unknown = <<>>

\* C12 amended: at a terminal level that has children, no action and no token
\* at all, help is displayed with exit code 1 and no other check is made;
\* otherwise the outcome is the first that applies of help flag among the unknown
\* tokens, missing mandatory option, leftover unknown token, positional-binding
\* error. `build -z` with the mandatory option of app unset reports
\* missingMandatoryOptionValue.
C12_TerminalOrderAmended ==
  /\ [][AtTerminal => IF NothingToRun THEN Exits(1, "commander.help") ELSE ChecksInOrder]_vars
  /\ []((argv = <<TokBuild, Short("z")>> /\ pc = "done")
          => /\ cur = "build"
             /\ unknown = <<Short("z")>>
             /\ outcome.code = "commander.missingMandatoryOptionValue")

\* C12 witness: `build -z` has ended at build, with -z left over and the
\* mandatory option of app missing
C12_Witness ==
  /\ argv = <<TokBuild, Short("z")>>
  /\ pc = "done"
  /\ cur = "build"
  /\ unknown = <<Short("z")>>
  /\ optionValues["app"][MustName] = Undefined
  /\ outcome.kind = "exit"

\* C13: when a terminal command with an action gets to the mandatory check
\* (no help flag is among the unknown tokens) and a mandatory option of the
\* command or of any ancestor up to the root has an undefined value, the parse
\* ends with missingMandatoryOptionValue and no action is invoked, also when the
\* command declares no mandatory option itself; so an action that has run found
\* every mandatory option up to the root with a value.
C13_MandatorySweep ==
  /\ [][(AtTerminal /\ _actionHandler(cur) /\ ~HelpFlagLeft /\ MandatoryMissing)
        => Exits(1, "commander.missingMandatoryOptionValue")]_vars
  /\ [](actions # <<>> => \A c \in UpToRoot(actions[Len(actions)].cmd) : ~LacksMandatory(c))
  /\ []((pc = "done" /\ outcome.kind = "exit"
           /\ outcome.code = "commander.missingMandatoryOptionValue") => MandatoryMissing)

\* C13 witness: `build x` on app: build declares no option, the mandatory option
\* of app has no value, and the parse ended without running the action of build
C13_Witness ==
  /\ argv = <<TokBuild, TokX>>
  /\ pc = "done"
  /\ cur = "build"
  /\ options("build") = <<>>
  /\ LacksMandatory("app")
  /\ outcome.kind = "exit"
  /\ outcome.code = "commander.missingMandatoryOptionValue"
  /\ actions = <<>>

\* The parse has ended with the exit `code`
EndedWith(code) == pc = "done" /\ outcome.kind = "exit" /\ outcome.code = code

\* No unknownOption exit is ever reported by a command that allows unknown options
AllowedNeverReported == [](EndedWith("commander.unknownOption") => ~_allowUnknownOption(cur))

\* C14 as stated: at a terminal level with a non-empty unknown sequence and
\* unknown options not allowed, the parse ends with unknownOption naming
\* unknown[0] and no action is invoked; a command that allows unknown options
\* never reports unknownOption.
C14_UnknownOption ==
  /\ [][(AtTerminal /\ UnknownLeft)
        => (Exits(1, "commander.unknownOption") /\ outcome'.detail = unknown[1])]_vars
  /\ AllowedNeverReported

\* C14 amended: at a terminal level with a non-empty unknown sequence and
\* unknown options not allowed, no action is invoked and the parse ends with
\* help displayed (exit code 0) if a help flag is among the unknown tokens, else
\* with missingMandatoryOptionValue if a mandatory option up to the root has no
\* value, else with unknownOption naming unknown[0]; `mk -z x` resolves into mk
\* and ends with unknownOption naming -z; a command that allows unknown options
\* never reports unknownOption.
C14_UnknownOptionAmended ==
  /\ [][(AtTerminal /\ UnknownLeft)
        => IF HelpFlagLeft THEN Exits(0, "commander.helpDisplayed")
           ELSE IF MandatoryMissing THEN Exits(1, "commander.missingMandatoryOptionValue")
           ELSE Exits(1, "commander.unknownOption") /\ outcome'.detail = unknown[1]]_vars
  /\ AllowedNeverReported
  /\ []((argv = <<TokMk, Short("z"), TokX>> /\ pc = "done")
          => /\ cur = "mk"
             /\ operands = <<>>
             /\ unknown = <<Short("z"), TokX>>
             /\ EndedWith("commander.unknownOption")
             /\ outcome.detail = Short("z")
             /\ actions = <<>>)

\* C14 witness: `mk -z x` on tool has ended in mk with unknownOption naming -z
C14_Witness ==
  /\ argv = <<TokMk, Short("z"), TokX>>
  /\ cur = "mk"
  /\ unknown = <<Short("z"), TokX>>
  /\ EndedWith("commander.unknownOption")
  /\ outcome.detail = Short("z")

(***************************************************************************)
(* Properties of the positional arguments.                                 *)
(***************************************************************************)
\* The last action invoked, and the arguments its function was called with
LastAction == actions[Len(actions)]

Received == actionArgs(LastAction.cmd, LastAction.args)

\* The string tokens held by a sequence of values, those inside arrays included
RECURSIVE TokensIn(_)
TokensIn(values) ==
  IF values = <<>> THEN <<>>
  ELSE LET v == Head(values)
       IN (CASE v.t = "string" -> <<v.s>>
             [] v.t = "array" -> TokensIn(v.a)
             [] OTHER -> <<>>) \o TokensIn(Tail(values))

\* The action of the running command has been invoked
ActionRan == pc = "done" /\ outcome = Return /\ actions # <<>>

\* Descriptor i of the last action is bound to token i of `tokens`, a variadic
\* last descriptor to all the tokens from i on
BoundInOrder(tokens) ==
  \A i \in 1..Len(_args(LastAction.cmd)) :
    IF _args(LastAction.cmd)[i].variadic
    THEN Received[i] = [t |-> "array", a |-> asValues(SubSeq(tokens, i, Len(tokens)))]
    ELSE Received[i] = (IF i <= Len(tokens) THEN Str(tokens[i]) ELSE Undefined)

\* C15 as stated: the values bound to the positional descriptors of a terminal
\* command are taken from operands only, in declaration order, and no token of
\* the unknown sequence is bound to a descriptor or passed to the action, also
\* when unknown options are allowed.
C15_OperandsOnly ==
  ActionRan => /\ BoundInOrder(operands)
               /\ TokensIn(Received) = operands

\* C15 amended: the values bound to the positional descriptors of a terminal
\* command are taken, in declaration order, from the operands followed by the
\* leftover unknown tokens. When unknown options are not allowed the action only
\* runs with no unknown token left, so the values are the operands; when they
\* are allowed the unknown tokens are bound to descriptors and passed to the
\* action like operands.
C15_OperandsThenUnknown ==
  ActionRan => /\ BoundInOrder(operands \o unknown)
               /\ TokensIn(Received) = operands \o unknown
               /\ unknown # <<>> => _allowUnknownOption(cur)

\* C15 witness: `-mx x -z` on app: run, which allows unknown options, got the
\* operand x and the unknown token -z in its variadic descriptor
C15_Witness ==
  /\ argv = <<<<"-", "m", "x">>, TokX, Short("z")>>
  /\ ActionRan
  /\ cur = "run"
  /\ operands = <<TokX>>
  /\ unknown = <<Short("z")>>
  /\ Received[1] = [t |-> "array", a |-> <<Str(TokX), Str(Short("z"))>>]

\* Descriptor i (from 1) of the running command is required and has no operand
LacksOperand(i) == _args(cur)[i].required /\ i > Len(Merged)

\* The first descriptor, in declaration order, that satisfies P
FirstArg(P(_)) ==
  CHOOSE i \in 1..Len(_args(cur)) : P(i) /\ \A j \in 1..(i - 1) : ~P(j)

\* A terminal command with an action is resolved with no unknown token left and
\* a required descriptor without an operand
MissesOperand ==
  /\ AtTerminal
  /\ _actionHandler(cur)
  /\ unknown = <<>>
  /\ \E i \in 1..Len(_args(cur)) : LacksOperand(i)

\* C16 as stated: a terminal command with an action, a required descriptor at
\* index i, fewer than i+1 operands and no leftover unknown token ends with
\* missingArgument naming the first such descriptor, and no action is invoked.
C16_MissingArgument ==
  [][MissesOperand
     => /\ Exits(1, "commander.missingArgument")
        /\ outcome'.detail = _args(cur)[FirstArg(LacksOperand)].name]_vars

\* Descriptor i of the running command is variadic
IsVariadic(i) == _args(cur)[i].variadic

\* C16 amended: in that case no action is invoked and the parse ends with
\* missingMandatoryOptionValue if a mandatory option up to the root has no
\* value; else with variadicArgNotLast, naming it, if a variadic descriptor is
\* declared before the first required descriptor without an operand; else with
\* missingArgument naming the first required descriptor without an operand.
C16_MissingArgumentAmended ==
  [][MissesOperand
     => LET first == FirstArg(LacksOperand)
        IN IF MandatoryMissing
           THEN Exits(1, "commander.missingMandatoryOptionValue")
           ELSE IF \E j \in 1..(first - 1) : IsVariadic(j)
           THEN /\ Exits(1, "commander.variadicArgNotLast")
                /\ outcome'.detail = _args(cur)[FirstArg(IsVariadic)].name
           ELSE /\ Exits(1, "commander.missingArgument")
                /\ outcome'.detail = _args(cur)[first].name]_vars

\* C16 witness: `x` on cp, declared with <a> <b...>, ended with missingArgument
\* naming b
C16_Witness ==
  /\ argv = <<TokX>>
  /\ cur = "cp"
  /\ operands = <<TokX>>
  /\ EndedWith("commander.missingArgument")
  /\ outcome.detail = <<"b">>
  /\ actions = <<>>

\* The last descriptor of the command of the last action is variadic
LastIsVariadic ==
  /\ _args(LastAction.cmd) # <<>>
  /\ _args(LastAction.cmd)[Len(_args(LastAction.cmd))].variadic

\* The action received each descriptor before the last bound to one token of
\* `tokens` and the last bound to the sequence of the remaining ones
Absorbs(tokens) ==
  LET n == Len(_args(LastAction.cmd))
  IN /\ \A i \in 1..(n - 1) :
          Received[i] = (IF i <= Len(tokens) THEN Str(tokens[i]) ELSE Undefined)
     /\ Received[n].t = "array"
     /\ Len(Received[n].a) = (IF Len(tokens) >= n THEN Len(tokens) - n + 1 ELSE 0)
     /\ \A k \in 1..Len(Received[n].a) : Received[n].a[k] = Str(tokens[n + k - 1])

\* The two examples: <a> <b...> with x, y, z; [a] [b...] with no operand
AbsorbsExamples ==
  /\ (argv = <<TokX, TokY, TokZ>> /\ cur = "cp" /\ pc = "done")
       => /\ ActionRan
          /\ Received[1] = Str(TokX)
          /\ Received[2] = [t |-> "array", a |-> <<Str(TokY), Str(TokZ)>>]
  /\ (argv = <<>> /\ cur = "ls" /\ pc = "done")
       => /\ ActionRan
          /\ Received[2] = [t |-> "array", a |-> <<>>]

\* C17 as stated: when the last descriptor is variadic the action receives the
\* preceding descriptors bound one operand each and the variadic descriptor
\* bound to the sequence of all remaining operands; an optional variadic with no
\* remaining operand is bound to the empty sequence.
C17_VariadicAbsorbs ==
  /\ (ActionRan /\ LastIsVariadic) => Absorbs(operands)
  /\ AbsorbsExamples

\* C17 amended: the tokens bound are the operands followed, when unknown
\* options are allowed, by the leftover unknown tokens: the preceding descriptors
\* get one each and the variadic descriptor the sequence of all that remain.
C17_VariadicAbsorbsAmended ==
  /\ (ActionRan /\ LastIsVariadic) => Absorbs(operands \o unknown)
  /\ (ActionRan /\ LastIsVariadic /\ ~_allowUnknownOption(cur)) => Absorbs(operands)
  /\ AbsorbsExamples

\* C17 witness: `x y z` on cp, declared with <a> <b...>, ran the action with
\* a = x and b = [y, z]
C17_Witness ==
  /\ argv = <<TokX, TokY, TokZ>>
  /\ cur = "cp"
  /\ ActionRan
  /\ Received[1] = Str(TokX)
  /\ Received[2] = [t |-> "array", a |-> <<Str(TokY), Str(TokZ)>>]

\* Descriptor i of the running command is variadic and is not the last one
VariadicNotLast(i) == _args(cur)[i].variadic /\ i # Len(_args(cur))

\* The action of the running command is about to run (no help flag, no missing
\* mandatory option, no unknown token that is not allowed) and the command
\* declares a variadic descriptor that is not the last one
AboutToRunMisdeclared ==
  /\ AtTerminal
  /\ _actionHandler(cur)
  /\ ~HelpFlagLeft
  /\ ~MandatoryMissing
  /\ ~UnknownLeft
  /\ \E i \in 1..Len(_args(cur)) : VariadicNotLast(i)

\* C18 as stated: a command whose action is about to run and that declares a
\* variadic descriptor anywhere but last ends with variadicArgNotLast naming
\* that descriptor, for every operand sequence, also with too few operands.
C18_VariadicNotLast ==
  [][AboutToRunMisdeclared
     => /\ Exits(1, "commander.variadicArgNotLast")
        /\ outcome'.detail = _args(cur)[FirstArg(VariadicNotLast)].name]_vars

\* Descriptor i of the running command is required and has no argument
LacksArgument(i) == _args(cur)[i].required /\ i > Len(Merged \o unknown)

\* C18 amended: such a command never runs its action; the parse ends with
\* missingArgument, naming it, if a required descriptor declared up to and
\* including the first misplaced variadic descriptor has no operand, and with
\* variadicArgNotLast naming the first misplaced variadic descriptor otherwise.
C18_VariadicNotLastAmended ==
  [][AboutToRunMisdeclared
     => LET v == FirstArg(VariadicNotLast)
        IN IF \E j \in 1..v : LacksArgument(j)
           THEN /\ Exits(1, "commander.missingArgument")
                /\ outcome'.detail = _args(cur)[FirstArg(LacksArgument)].name
           ELSE /\ Exits(1, "commander.variadicArgNotLast")
                /\ outcome'.detail = _args(cur)[v].name]_vars

\* C18 witness: `mk x x` on tool, mk declared with <a> [v...] <c>, ended with
\* variadicArgNotLast naming v
C18_Witness ==
  /\ argv = <<TokMk, TokX, TokX>>
  /\ cur = "mk"
  /\ EndedWith("commander.variadicArgNotLast")
  /\ outcome.detail = <<"v">>
  /\ actions = <<>>

(***************************************************************************)
(* Properties of the levels without an action.                             *)
(***************************************************************************)
\* The level has children but no action, no default child, no `*` child and no
\* listener of command:*
NothingHookedUp(cmd) ==
  /\ commands(cmd) # <<>>
  /\ ~_actionHandler(cmd)
  /\ ~hasDefaultCommand(cmd)
  /\ ~\E c \in Commands : IsChildNamed(cmd, c, TokStar)
  /\ ~hasCommandStarListener(cmd)

\* unknownCommand is only raised by such a level, with an operand that names no
\* child
OnlyWhenNothingHookedUp ==
  [](EndedWith("commander.unknownCommand")
       => /\ NothingHookedUp(cur)
          /\ operands # <<>>
          /\ ~\E c \in Commands : IsChildNamed(cur, c, operands[1])
          /\ actions = <<>>)

\* A level that has an action and whose operands name no child runs its action
\* with the operands, unless another error is reported
ActionGetsOperands ==
  [][(/\ AtTerminal
      /\ _actionHandler(cur)
      /\ Merged # <<>>
      /\ ~HelpFlagLeft
      /\ ~MandatoryMissing
      /\ ~UnknownLeft
      /\ ~PositionalFault)
     => /\ pc' = "done"
        /\ outcome' = Return
        /\ Len(actions') = Len(actions) + 1
        /\ actions'[Len(actions')].cmd = cur
        /\ TokensIn(actions'[Len(actions')].args) = Merged \o unknown]_vars

\* Resolution ends at the running level with an operand that names no child
EndsWithStrayOperand ==
  /\ pc = "resolve"
  /\ Merged # <<>>
  /\ ~NamesChild
  /\ NothingHookedUp(cur)

\* C19 as stated: unknownCommand is raised exactly when a level with children,
\* no action, no default child, no `*` child and no command:* listener ends
\* resolution with an operand and operands[0] names no child; a level with an
\* action never raises it and passes the operands to its action.
C19_UnknownCommand ==
  /\ OnlyWhenNothingHookedUp
  /\ [][EndsWithStrayOperand => Exits(1, "commander.unknownCommand")]_vars
  /\ ActionGetsOperands

\* C19 amended: unknownCommand is raised only then, and then it is raised
\* unless operands[0] is the name of the implicit help command (help is
\* displayed or a child is entered for its help), a help flag is among the unknown tokens (help is displayed), a
\* mandatory option up to the root has no value (missingMandatoryOptionValue) or
\* an unknown token that is not allowed is left (unknownOption); a level with an
\* action never raises it and passes the operands to its action.
C19_UnknownCommandAmended ==
  /\ OnlyWhenNothingHookedUp
  /\ [][EndsWithStrayOperand
        => IF NamesHelp THEN pc' = "done" => outcome'.code = "commander.help"
           ELSE IF HelpFlagLeft THEN Exits(0, "commander.helpDisplayed")
           ELSE IF MandatoryMissing THEN Exits(1, "commander.missingMandatoryOptionValue")
           ELSE IF UnknownLeft THEN Exits(1, "commander.unknownOption")
           ELSE Exits(1, "commander.unknownCommand") /\ outcome'.detail = Merged[1]]_vars
  /\ ActionGetsOperands

\* C19 witness: `x` on tool ended with unknownCommand naming x
C19_Witness ==
  /\ argv = <<TokX>>
  /\ cur = "tool"
  /\ EndedWith("commander.unknownCommand")
  /\ outcome.detail = TokX

\* The running command was entered by its caller for `help <child>`
EnteredForHelp ==
  /\ callers # <<>>
  /\ HelpCommandOn(Caller.cmd)
  /\ Len(Caller.operands) >= 2
  /\ Caller.operands[1] = TokHelp
  /\ IsChildNamed(Caller.cmd, cur, Caller.operands[2])

\* C20: on a level with children, no action and no child named help, when
\* operands[0] is the help-command name: with no further operand the help of
\* that level is displayed and the parse ends with exit code 0; with a further
\* operand that names a child, that child is entered with no operand and the
\* help long flag as its only token, and the parse then ends in the child with
\* its help displayed, exit code 0, and no action invoked.
C20_ImplicitHelp ==
  /\ [][(pc = "resolve" /\ NamesHelp)
        => IF Len(Merged) = 1
           THEN Exits(0, "commander.help") /\ cur' = cur
           ELSE (\E c \in Commands : IsChildNamed(cur, c, Merged[2]))
                  => /\ pc' = "parseOptions"
                     /\ IsChildNamed(cur, cur', Merged[2])
                     /\ carried' = <<>>
                     /\ input' = <<Long(TokHelp)>>
                     /\ args' = <<Long(TokHelp)>>
                     /\ actions' = actions]_vars
  /\ [](EnteredForHelp
          => /\ carried = <<>>
             /\ input = <<Long(TokHelp)>>
             /\ actions = <<>>
             /\ pc = "done" => /\ outcome = ExitWith(0, "commander.helpDisplayed", <<>>)
                               /\ cur # Caller.cmd
                               /\ operands = <<>>)
  /\ [][EnteredForHelp => (cur' = cur /\ actions' = actions)]_vars

\* C20 witness: `help mk` on tool has ended in mk with its help displayed
C20_Witness ==
  /\ argv = <<TokHelp, TokMk>>
  /\ EnteredForHelp
  /\ cur = "mk"
  /\ pc = "done"
  /\ outcome = ExitWith(0, "commander.helpDisplayed", <<>>)
  /\ actions = <<>>

(***************************************************************************)
(* Properties of the default child, the value binder, the exit override    *)
(* and of whole parses.                                                    *)
(***************************************************************************)
\* The command c is the default child of cmd
IsDefaultChild(cmd, c) ==
  /\ hasDefaultCommand(cmd)
  /\ IsChildNamed(cmd, c, _defaultCommandName(cmd))

\* _parseCommand is about to resolve a level that has a default child, with
\* operands[0] naming no child and not being the implicit help command
DefaultApplies ==
  /\ pc = "resolve"
  /\ hasDefaultCommand(cur)
  /\ ~NamesChild
  /\ ~NamesHelp

\* The step enters the default child with all the operands and unknown tokens
Forwards ==
  /\ pc' = "parseOptions"
  /\ IsDefaultChild(cur, cur')
  /\ carried' = Merged
  /\ input' = unknown
  /\ args' = unknown
  /\ outcome' = Running

\* C21 (as stated): when a level has a default child and operands[0] names no
\* child and is not the implicit help command, all current operands and all
\* unknown tokens are forwarded unchanged to the default child, for every
\* content of the unknown sequence.
C21_DefaultForward == [][DefaultApplies => Forwards]_vars

\* C21 (amended): under the same conditions all current operands and all
\* unknown tokens are forwarded unchanged to the default child, except when a
\* help flag is among the unknown tokens: then the help of the level is
\* displayed, the parse ends with exit code 0 and the default child is not
\* entered.
C21_DefaultForwardAmended ==
  [][DefaultApplies
       => IF HelpFlagLeft
          THEN Exits(0, "commander.helpDisplayed") /\ cur' = cur /\ callers' = callers
          ELSE Forwards]_vars

\* C21 witness: `x -z` on app, no child named x: run, the default child, was
\* entered with the operand x and the unknown token -z
C21_Witness ==
  /\ argv = <<TokX, Short("z")>>
  /\ cur = "run"
  /\ callers # <<>>
  /\ Caller.cmd = "app"
  /\ carried = <<TokX>>
  /\ input = <<Short("z")>>
  /\ pc = "done"

\* The bound value of the option stored under `key` on command cmd
Bound(cmd, key) == optionValues[cmd][key]

\* The token occurs in argv as an option: in front of any `--`
GivenAsOption(token) ==
  \E i \in 1..Len(argv) :
    /\ argv[i] = token
    /\ \A j \in 1..(i - 1) : argv[j] # DashDash

\* C22: negation default. For neg, which declares `--no-cheese` only (no
\* `--cheese`), the bound value of cheese is true after registration and before
\* any parse, is still true after every parse that does not hold `--no-cheese`
\* as an option (in front of any `--`), and is false after every parse that does.
C22_NegationDefault ==
  /\ pc = "idle" => Bound("neg", CheeseName) = Bool(TRUE)
  /\ (cur = "neg" /\ pc = "done")
       => Bound("neg", CheeseName) = Bool(~GivenAsOption(Long(NoCheeseName)))

\* C22 witness: `x --no-cheese` on neg has ended with cheese bound to false
C22_Witness ==
  /\ cur = "neg"
  /\ argv = <<TokX, Long(NoCheeseName)>>
  /\ pc = "done"
  /\ Bound("neg", CheeseName) = Bool(FALSE)
  /\ events = <<[cmd |-> "neg", name |-> NoCheeseName, val |-> Undefined]>>

\* The step emits an occurrence: e is the event it adds
Emits(e) == pc = "parseOptions" /\ events' = Append(events, e)

\* The option of the running command that event e is an occurrence of
OptionOf(e) ==
  options(cur)[CHOOSE k \in 1..Len(options(cur)) : options(cur)[k].name = e.name]

\* The key that the option named `name` of the running command is stored under
KeyOf(name) ==
  attributeName(options(cur)[CHOOSE k \in 1..Len(options(cur)) : options(cur)[k].name = name])

\* No occurrence has bound a value under the key of the option yet: the store
\* holds what registration left there, undefined or the pre-assigned default
NothingBoundYet(option) ==
  \A i \in 1..Len(events) : KeyOf(events[i].name) # attributeName(option)

\* The step is an occurrence without a value (a boolean flag, or an
\* Optional-arity option with no value) of the non-negation option `option`,
\* arriving while nothing is bound yet
FirstBareOccurrence(option) ==
  \E e \in {[cmd |-> cur, name |-> option.name, val |-> v] : v \in {Null, Undefined}} :
    /\ Emits(e)
    /\ ~option.negate
    /\ NothingBoundYet(option)

\* The options of the running command
OptionsOfCur == { options(cur)[k] : k \in 1..Len(options(cur)) }

IsFalsy(d) == d \in {Num(0), Str(<<>>), Bool(FALSE)}

\* Registration pre-assigned the default of the (non-negation) option
PreAssigned(option) ==
  /\ option.defaultValue # Undefined
  /\ option.optional \/ option.required \/ option.defaultValue.t = "boolean"

LastEvent == events[Len(events)]

\* C24: pn registers `-f, --foo [v]` and then `--no-foo`, np registers
\* `--no-foo` and then `--foo`. After every sequence of occurrences of the two
\* flags the bound value of foo is decided by the last occurrence alone: it is
\* false if the last one is `--no-foo`, whatever was bound before (true, or the
\* string that `--foo x` bound), and it is not false if the last one is `--foo`.
C24_LastOccurrenceWins ==
  (cur \in {"pn", "np"} /\ events # <<>>)
    => IF LastEvent.name = NoFooName
       THEN Bound(cur, FooName) = Bool(FALSE)
       ELSE Bound(cur, FooName) # Bool(FALSE)

\* C24 witness: `--foo x --no-foo` on pn: the string x was bound, and the
\* negation that came last has replaced it by false
C24_Witness ==
  /\ cur = "pn"
  /\ argv = <<Long(FooName), TokX, Long(NoFooName)>>
  /\ pc = "done"
  /\ events = <<[cmd |-> "pn", name |-> FooName, val |-> Str(TokX)],
                [cmd |-> "pn", name |-> NoFooName, val |-> Undefined]>>
  /\ Bound("pn", FooName) = Bool(FALSE)

\* The values carried by the occurrences of the option named `name`, in order,
\* among the first n events
RECURSIVE Carried(_, _)
Carried(name, n) ==
  IF n = 0 THEN <<>>
  ELSE IF events[n].name = name /\ events[n].val # Null
       THEN Append(Carried(name, n - 1), events[n].val)
       ELSE Carried(name, n - 1)

\* f(vn, ... f(v2, f(v1, d)) ...) for the values v1..vn
RECURSIVE Folded(_, _, _)
Folded(f, d, values) ==
  IF values = <<>> THEN d
  ELSE fn(f, values[Len(values)], Folded(f, d, SubSeq(values, 1, Len(values) - 1)))

\* C25: acc registers `-n, --num <v>` with the function collect and default [],
\* and `-s, --size [v]` with the function made of /^x/ and default 'y'. After
\* occurrences carrying the values v1..vn in that order, the bound value of
\* each is f(vn, ... f(v2, f(v1, d)) ...): every call receives the raw value and
\* the currently bound value (d when nothing is bound yet) and its result
\* replaces the bound value; an occurrence without a value calls nothing.
C25_CoercionFold ==
  cur = "acc"
    => \A option \in OptionsOfCur :
         Bound("acc", attributeName(option))
           = Folded(option.fn, option.defaultValue, Carried(option.name, Len(events)))

\* C25 witness: `-nx -ny -sxy` on acc has bound num to [x, y] and size to the
\* match x
C25_Witness ==
  /\ cur = "acc"
  /\ argv = <<<<"-", "n", "x">>, <<"-", "n", "y">>, <<"-", "s", "x", "y">>>>
  /\ pc = "done"
  /\ Len(events) = 3
  /\ Bound("acc", <<"n", "u", "m">>) = Arr(<<Str(TokX), Str(TokY)>>)
  /\ Bound("acc", <<"s", "i", "z", "e">>) = Str(TokX)

\* The error kinds
ErrorKinds ==
  {"commander.missingArgument", "commander.optionMissingArgument",
   "commander.missingMandatoryOptionValue", "commander.unknownOption",
   "commander.unknownCommand", "commander.variadicArgNotLast"}

\* The program parse() was called on
Program == IF callers = <<>> THEN cur ELSE callers[1].cmd

\* What the parse has reported: the object handed to the handler if one was
\* called, else the exit the process was terminated with
Reported ==
  IF exitCallbackCalls # <<>> THEN exitCallbackCalls[1]
  ELSE [exitCode |-> outcome.exitCode, code |-> outcome.code, message |-> outcome.detail]

\* The parse has ended and has reported one of the error kinds
EndedInError ==
  /\ pc = "done"
  /\ exitCallbackCalls # <<>> \/ outcome.kind = "exit"
  /\ Reported.code \in ErrorKinds

\* The process was terminated with exit code 1
Terminated ==
  /\ outcome.kind = "exit"
  /\ outcome.exitCode = 1
  /\ outcome.code = Reported.code

\* The error went to the caller of parse() as a thrown object
Thrown == outcome = [kind |-> "throw", error |-> Reported]

\* The handler received the error as one object carrying exit code 1, once
Delivered == exitCallbackCalls = <<Reported>> /\ Reported.exitCode = 1

\* The command that reported: the command of the walk up from the running
\* command that lacks a mandatory option value, for that error kind, and the
\* running command for every other kind
Reporter ==
  IF Reported.code = "commander.missingMandatoryOptionValue"
  THEN ancestry(cur)[CHOOSE a \in 1..Len(ancestry(cur)) :
                       /\ LacksMandatory(ancestry(cur)[a])
                       /\ \A b \in 1..(a - 1) : ~LacksMandatory(ancestry(cur)[b])]
  ELSE cur

\* C26 (as stated): when an exit override is installed, every error kind is
\* delivered to the handler as one object carrying exit code 1, the kind code
\* and the message, instead of the process being terminated; without an
\* override the process is terminated with exit code 1.
C26_ExitOverride ==
  EndedInError
    => IF _exitCallback[Program] # "none"
       THEN Delivered /\ ~Terminated
       ELSE Terminated /\ exitCallbackCalls = <<>>

\* C26 (amended): when the command that reports the error has an exit override
\* (its own, or the one command() copied from its parent when it was
\* registered), every error kind is delivered to the handler as one object
\* carrying exit code 1, the kind code and the message; the process is not
\* terminated only if the handler does not return (the handler exitOverride()
\* installs by default throws the object); if the handler returns, the process
\* is terminated with exit code 1 all the same. A command without an override
\* terminates the process with exit code 1 and no handler is called.
C26_ExitOverrideAmended ==
  EndedInError
    => CASE _exitCallback[Reporter] = "throws" -> Delivered /\ Thrown
         [] _exitCallback[Reporter] = "returns" -> Delivered /\ Terminated
         [] _exitCallback[Reporter] = "none" -> Terminated /\ exitCallbackCalls = <<>>

\* C26 witness: `x` on tool registered with exitOverride(): the unknownCommand
\* error was thrown to the caller of parse() with exit code 1, naming x
C26_Witness ==
  /\ cur = "tool"
  /\ argv = <<TokX>>
  /\ _exitCallback["tool"] = "throws"
  /\ pc = "done"
  /\ outcome = [kind |-> "throw", error |-> CommanderError(1, "commander.unknownCommand", TokX)]
  /\ exitCallbackCalls = <<CommanderError(1, "commander.unknownCommand", TokX)>>
  /\ actions = <<>>

\* The parse has ended in the action of the command it resolved to, invoked
\* once, with nothing reported
RanItsAction ==
  /\ Len(actions) = 1
  /\ actions[1].cmd = cur
  /\ outcome = Return
  /\ exitCallbackCalls = <<>>

\* The parse has aborted with exactly one error kind, and no action
AbortedWithOneError ==
  /\ EndedInError
  /\ Len(exitCallbackCalls) <= 1
  /\ outcome.kind \in {"exit", "throw"}
  /\ actions = <<>>

\* The parse has ended with a help display, and no action
ShowedHelp ==
  /\ exitCallbackCalls # <<>> \/ outcome.kind = "exit"
  /\ Reported.code \in {"commander.help", "commander.helpDisplayed"}
  /\ Len(exitCallbackCalls) <= 1
  /\ actions = <<>>

\* The parse has returned with nothing run and nothing reported
RanNothing ==
  /\ outcome = Return
  /\ actions = <<>>
  /\ exitCallbackCalls = <<>>

\* In one parse at most one action is invoked, at most once, and never after
\* something was reported: once the parse has an outcome nothing more happens
AtMostOneAction ==
  /\ [](Len(actions) <= 1)
  /\ [](actions # <<>> => (exitCallbackCalls = <<>> /\ outcome = Return))
  /\ [][outcome.kind # "running" => UNCHANGED <<actions, outcome, exitCallbackCalls>>]_vars

\* C27 (as stated): no partial success. In one parse the action of at most one
\* command is invoked, at most once, and never in a parse in which an error
\* kind was reported; a parse either reaches the action of the resolved
\* command or aborts with exactly one error kind.
C27_NoPartialSuccess ==
  /\ AtMostOneAction
  /\ [](pc = "done" => (RanItsAction \/ AbortedWithOneError))

\* C27 (amended): in one parse the action of at most one command is invoked, at
\* most once, and never in a parse in which an error kind was reported; a
\* parse ends in exactly one of four ways: the action of the resolved command,
\* an abort with exactly one error kind, a help display, or a return with
\* nothing run (a command with neither action nor children, or a `command:*`
\* listener).
C27_NoPartialSuccessAmended ==
  /\ AtMostOneAction
  /\ [](pc = "done"
          => Cardinality({w \in {"action", "error", "help", "nothing"} :
                            \/ w = "action" /\ RanItsAction
                            \/ w = "error" /\ AbortedWithOneError
                            \/ w = "help" /\ ShowedHelp
                            \/ w = "nothing" /\ RanNothing}) = 1)

\* C27 witness: `hx -m` on hub: the option -m of hub lacks its argument behind
\* the name of the child hx; the parse has aborted with optionMissingArgument
\* and the action of hx has not run
C27_Witness ==
  /\ argv = <<TokHx, Short("m")>>
  /\ cur = "hub"
  /\ pc = "done"
  /\ AbortedWithOneError
  /\ Reported.code = "commander.optionMissingArgument"
  /\ actions = <<>>

\* The state of a parseOptions call that starts on `tokens` with the store `values`
Started(tokens, values) ==
  [args |-> tokens, operands |-> <<>>, unknown |-> <<>>, dest |-> "operands",
   events |-> <<>>, consumed |-> <<>>, values |-> values, pc |-> "parseOptions",
   outcome |-> Running]

\* What _parseCommand(ops, tokens) on cmd gives from the store `store` and no
\* action called yet: the store, the outcome and the action calls at the end
RECURSIVE ParseFrom(_, _, _, _)
ParseFrom(cmd, ops, tokens, store) ==
  LET st == parseOptions(cmd, Started(tokens, store[cmd]))
      after == [store EXCEPT ![cmd] = st.values]
      step == _parseCommand(cmd, ops \o st.operands, st.unknown, after)
  IN IF st.pc = "done"
     THEN [optionValues |-> after, outcome |-> st.outcome, actions |-> <<>>]
     ELSE IF step.kind = "dispatch"
     THEN ParseFrom(step.to, step.operands, step.unknown, after)
     ELSE IF step.kind = "action"
     THEN [optionValues |-> after, outcome |-> Return,
           actions |-> <<[cmd |-> step.cmd, args |-> step.args]>>]
     ELSE [optionValues |-> after, outcome |-> step, actions |-> <<>>]

\* What parse(tokens) gives on a freshly registered copy of the program
OnFreshTree(root, tokens) ==
  ParseFrom(root, <<>>, tokens, [c \in Commands |-> _optionEx(c, Len(options(c)))])

\* C28: parses are independent. When parse(argv) has ended on a program, on
\* which another argument vector may have been parsed before, the bound option
\* values, the outcome and the collected action results are those that
\* parse(argv) gives on a freshly registered identical program.
C28_ParsesIndependent ==
  pc = "done"
    => /\ optionValues = OnFreshTree(rootCommand, argv).optionValues
       /\ outcome = OnFreshTree(rootCommand, argv).outcome
       /\ actions = OnFreshTree(rootCommand, argv).actions

\* Child number i of the running command has the name / the alias operands[0]
NamedChild(i) == _name(commands(cur)[i]) = Merged[1]
AliasedChild(i) == hasAlias(commands(cur)[i]) /\ _alias(commands(cur)[i]) = Merged[1]

\* _parseCommand is about to resolve operands[0], which is the name of one
\* child and the alias of another
NameMeetsAlias ==
  /\ pc = "resolve"
  /\ Merged # <<>>
  /\ \E i, j \in 1..Len(commands(cur)) : i # j /\ NamedChild(i) /\ AliasedChild(j)

\* C29 (as stated): alias tie-break. When operands[0] equals the name of one
\* child and the alias of another child, the child matched by exact name is
\* selected, whatever the declaration order of the two children.
C29_NameBeforeAlias ==
  [][NameMeetsAlias
       => \E i \in 1..Len(commands(cur)) : NamedChild(i) /\ cur' = commands(cur)[i]]_vars

\* C29 (amended): when operands[0] equals the name of one child and the alias
\* of another child, the child declared first of the two is selected: the
\* child matched by exact name when it was declared before the other, the
\* child matched by its alias when that one was declared first.
C29_FirstDeclaredWins ==
  [][NameMeetsAlias
       => \E i \in 1..Len(commands(cur)) :
            /\ NamedChild(i) \/ AliasedChild(i)
            /\ \A j \in 1..(i - 1) : ~(NamedChild(j) \/ AliasedChild(j))
            /\ cur' = commands(cur)[i]
            /\ pc' = "parseOptions"
            /\ carried' = Tail(Merged)]_vars

\* C29 witness: `b` on two, where a (alias b) is declared before b: the action
\* of a has run, entered through its alias
C29_Witness ==
  /\ argv = <<TokB>>
  /\ callers # <<>>
  /\ Caller.cmd = "two"
  /\ cur = "two_a"
  /\ pc = "done"
  /\ actions = <<[cmd |-> "two_a", args |-> <<>>]>>

\* The number of characters of the tokens, plus one for each token
RECURSIVE Size(_)
Size(tokens) == IF tokens = <<>> THEN 0 ELSE Len(Head(tokens)) + 1 + Size(Tail(tokens))

\* The number of levels below command c in its tree
RECURSIVE Depth(_)
Depth(c) ==
  IF commands(c) = <<>> THEN 0
  ELSE 1 + (CHOOSE d \in {Depth(commands(c)[i]) : i \in 1..Len(commands(c))} :
              \A i \in 1..Len(commands(c)) : Depth(commands(c)[i]) <= d)

\* The step is a pass through the loop of parseOptions that stays in the loop
LoopsOn == pc = "parseOptions" /\ pc' = "parseOptions"

\* C30: every parse terminates. Each pass through the loop of parseOptions
\* leaves a strictly smaller queue (fewer tokens, or, when a cluster remainder
\* is re-injected, a first token strictly shorter than the token it came
\* from); resolution descends only from a command to one of its children, so
\* at most as many times as the tree is deep; and every parse that was started
\* comes to its end, in an action, a help display, a return with nothing run,
\* or one error.
C30_Terminates ==
  /\ [][LoopsOn
          => /\ Size(args') < Size(args)
             /\ Len(args') < Len(args)
                  \/ /\ Len(args') = Len(args)
                     /\ Len(Head(args')) < Len(Head(args))
                     /\ Tail(args') = Tail(args)]_vars
  /\ [][callers' # callers
          => /\ callers' = Append(callers, Frame)
             /\ \E i \in 1..Len(commands(cur)) : cur' = commands(cur)[i]]_vars
  /\ [](Len(callers) <= Depth(rootCommand))
  /\ [](pc = "done" => (RanItsAction \/ AbortedWithOneError \/ ShowedHelp \/ RanNothing))
  /\ (pc # "idle") ~> (pc = "done")

\* C30 witness: `sub x -sp` on program: the parse descended into sub, where
\* the cluster -sp was split (-s emitted, -p re-injected and emitted), and
\* ended in the action of sub
C30_Witness ==
  /\ argv = <<TokSub, TokX, <<"-", "s", "p">>>>
  /\ Len(callers) = 1
  /\ cur = "sub"
  /\ events = <<[cmd |-> "sub", name |-> SauceName, val |-> Undefined],
                [cmd |-> "sub", name |-> PepperName, val |-> Undefined]>>
  /\ pc = "done"
  /\ RanItsAction

(***************************************************************************)
(* Properties of the frame of a parse, of repeated flags, of flags shared  *)
(* between levels and of the exit override across the tree.                *)
(***************************************************************************)
\* The structure of a node: its children, its option descriptors and its
\* positional descriptors, as the object holds them in the current state
Structure(c) ==
  [commands |-> thisCommands(c, optionValues), options |-> options(c), _args |-> _args(c)]

\* No step of a parse changes the structure of a node
StructureKept == [][\A c \in Commands : Structure(c)' = Structure(c)]_vars

\* The events the step emits
Emitted == { events'[i] : i \in (Len(events) + 1)..Len(events') }

\* A step changes a store only at the node that is tokenizing, and there only
\* under the keys of the options it emits
StoreFrame ==
  [][\A c \in Commands : \A k \in Keys(c) :
       optionValues'[c][k] # optionValues[c][k]
         => /\ pc = "parseOptions"
            /\ c = cur
            /\ \E e \in Emitted : e.cmd = c /\ KeyOf(e.name) = k]_vars

\* The passes of parseOptions leave the token array it was called with alone
InputKept == [][pc = "parseOptions" => input' = input]_vars

\* C31: frame of a parse. No step of a parse changes, for any node, the list
\* of children, the list of option descriptors or the list of positional
\* descriptors; an option occurrence changes the bound value under the key of
\* that option in the store of the node that tokenized it and nothing in the
\* store of any other node; parseOptions leaves its input token array unchanged.
C31_Frame == StructureKept /\ StoreFrame /\ InputKept

\* The option is a boolean flag: it takes no value
IsBoolean(option) == ~option.required /\ ~option.optional

\* The step is an occurrence of the boolean flag `option`
FlagOccurs(option) == Emits([cmd |-> cur, name |-> option.name, val |-> Undefined])

\* The flag has occurred before in this parse, and no other option has been
\* bound under its key
OccurredAlone(option) ==
  /\ \E i \in 1..Len(events) : events[i].name = option.name
  /\ \A i \in 1..Len(events) :
       KeyOf(events[i].name) = attributeName(option) => events[i].name = option.name

\* C32: repeating a boolean flag is idempotent. For a boolean option, with or
\* without a declared default of any type, a second or later occurrence of
\* the flag (a token of its own or a letter of a short cluster) leaves the
\* value that the first occurrence bound.
C32_RepeatIdempotent ==
  [][\A option \in OptionsOfCur :
       (IsBoolean(option) /\ OccurredAlone(option) /\ FlagOccurs(option))
         => optionValues'[cur][attributeName(option)]
              = optionValues[cur][attributeName(option)]]_vars

\* The same, for the flags whose declared default is not a truthy value of
\* another type than boolean
RepeatIdempotentElsewhere ==
  [][\A option \in OptionsOfCur :
       (/\ IsBoolean(option)
        /\ option.defaultValue.t = "boolean" \/ ~truthy(option.defaultValue)
        /\ OccurredAlone(option)
        /\ FlagOccurs(option))
         => optionValues'[cur][attributeName(option)]
              = optionValues[cur][attributeName(option)]]_vars

\* The tokens that match the option: its short and its long flag
FlagsOf(option) == {option.long} \cup (IF option.hasShort THEN {option.short} ELSE {})

\* The tokens that match an option registered on cmd
FlagsAt(cmd) == UNION { FlagsOf(options(cmd)[k]) : k \in 1..Len(options(cmd)) }

\* The position of the first `--` among the tokens, one past the end without one
LiteralAt(tokens) ==
  IF \E i \in 1..Len(tokens) : tokens[i] = DashDash
  THEN CHOOSE i \in 1..Len(tokens) :
         tokens[i] = DashDash /\ \A j \in 1..(i - 1) : tokens[j] # DashDash
  ELSE Len(tokens) + 1

\* The tokens that stand before the first `--`, and those that stand after it
BeforeLiteral(tokens) == SubSeq(tokens, 1, LiteralAt(tokens) - 1)
AfterLiteral(tokens) == SubSeq(tokens, LiteralAt(tokens) + 1, Len(tokens))

\* How many of the tokens are members of the set
CountIn(tokens, S) == Cardinality({i \in 1..Len(tokens) : tokens[i] \in S})

\* How many times the option named `name` was emitted on cmd
Occurrences(cmd, name) ==
  Cardinality({i \in 1..Len(events) : events[i].cmd = cmd /\ events[i].name = name})

\* The store that the listeners of cmd make of `values` when the events are
\* emitted in order
RECURSIVE Replay(_, _, _)
Replay(cmd, evs, values) ==
  IF evs = <<>> THEN values
  ELSE Replay(cmd, Tail(evs),
              IF Head(evs).cmd = cmd
              THEN emit(cmd, Head(evs).name, Head(evs).val, values)
              ELSE values)

\* parseOptions of the running command has returned
Returned == pc = "resolve"

\* What Returned leaves of the flags of the running command: its store holds
\* what its own occurrences bound, and a token equal to one of its flags is
\* among the operands and the unknown tokens only if it stood after a `--`
BoundAndConsumed ==
  /\ optionValues[cur] = Replay(cur, events, _optionEx(cur, Len(options(cur))))
  /\ CountIn(operands \o unknown, FlagsAt(cur)) <= CountIn(AfterLiteral(input), FlagsAt(cur))

\* While a command tokenizes, the store of no other command changes, and the
\* child it then enters receives a token equal to one of its flags only if it
\* stood after a `--`
ChildKeptClear ==
  /\ [][pc = "parseOptions"
          => \A c \in Commands \ {cur} : optionValues'[c] = optionValues[c]]_vars
  /\ [][callers' # callers
          => CountIn(carried' \o input', FlagsAt(cur))
               <= CountIn(AfterLiteral(input), FlagsAt(cur))]_vars

\* C33: a token equal to a flag registered on a parent level is consumed and
\* bound in the parent's store wherever it stands in the parent's input
\* before a `--`, also after the subcommand name and after an unrecognized
\* option: when parseOptions returns, each option has been emitted at least
\* once for every such token; when parent and child register the same flag,
\* the child's store is never changed by such a token and the child never
\* receives it.
C33_ParentFlagAnywhere ==
  /\ [](Returned
          => /\ \A k \in 1..Len(options(cur)) :
                  CountIn(BeforeLiteral(input), FlagsOf(options(cur)[k]))
                    <= Occurrences(cur, options(cur)[k].name)
             /\ BoundAndConsumed)
  /\ ChildKeptClear

\* C33, amended: the same for every such token but those that were taken off
\* the queue as the value of the option before them.
C33_ParentFlagUnlessValue ==
  /\ [](Returned
          => /\ \A k \in 1..Len(options(cur)) :
                  CountIn(BeforeLiteral(input), FlagsOf(options(cur)[k]))
                      - CountIn(consumed, FlagsOf(options(cur)[k]))
                    <= Occurrences(cur, options(cur)[k].name)
             /\ BoundAndConsumed)
  /\ ChildKeptClear

\* C33 witness: `sub -z -p` on program: -p stands after the subcommand name
\* and after the unrecognized -z, is bound on program and is not handed to
\* sub, which registers -p too and whose store keeps pepper unbound
C33_Witness ==
  /\ argv = <<TokSub, Short("z"), Short("p")>>
  /\ cur = "sub"
  /\ Len(callers) = 1
  /\ input = <<Short("z")>>
  /\ carried = <<>>
  /\ events = <<[cmd |-> "program", name |-> PepperName, val |-> Undefined]>>
  /\ optionValues["program"][PepperName] = Bool(TRUE)
  /\ optionValues["sub"][PepperName] = Undefined
  /\ pc = "done"

\* An error kind was reported while a subcommand was being resolved
RaisedInSubcommand == EndedInError /\ callers # <<>>

\* The command holds the handler that was installed on the program: it is the
\* program, or command() copied the handler to it when it created it
HoldsRootHandler(c) == _exitCallback[Program] # "none" /\ _exitCallback[c] = _exitCallback[Program]

\* C34 (as stated): an exit override installed on the root command governs the
\* errors raised at every level of the tree: for every order of the
\* registration calls, an error raised while resolving a subcommand is
\* delivered to the root's handler and does not terminate the process.
C34_RootOverrideGoverns ==
  (RaisedInSubcommand /\ _exitCallback[Program] # "none") => (Delivered /\ ~Terminated)

\* C34 (amended): an error raised while resolving a subcommand is delivered to
\* the root's handler when the command that reports it holds that handler (a
\* subcommand that command() created after exitOverride was called, or the
\* root itself for a mandatory option value it lacks), and then the process
\* is not terminated if the handler throws and is terminated with exit code 1
\* if it returns; a subcommand created before exitOverride was called, or
\* attached with addCommand, holds no handler, and an error it reports
\* terminates the process with exit code 1.
C34_RootOverrideWhereCopied ==
  (RaisedInSubcommand /\ _exitCallback[Program] # "none")
    => IF HoldsRootHandler(Reporter)
       THEN /\ Delivered
            /\ IF _exitCallback[Program] = "throws" THEN Thrown /\ ~Terminated ELSE Terminated
       ELSE Terminated /\ exitCallbackCalls = <<>>

\* C34 witness: `mk` on tool, registered with exitOverride() before its
\* commands: the missingArgument error of mk was thrown to the caller of
\* parse() through the handler mk holds
C34_Witness ==
  /\ argv = <<TokMk>>
  /\ cur = "mk"
  /\ Len(callers) = 1
  /\ _exitCallback["tool"] = "throws"
  /\ _exitCallback["mk"] = "throws"
  /\ pc = "done"
  /\ outcome.kind = "throw"
  /\ outcome.error.code = "commander.missingArgument"
  /\ exitCallbackCalls = <<outcome.error>>

====
